---- MODULE Spec2Model ----
(***************************************************************************)
(* A model of the apirest router (main.go), its interceptor list           *)
(* (interceptores.go) and its error chain (errores.go).                    *)
(*                                                                         *)
(* A Go string is modelled as a sequence of symbols.  A symbol is a        *)
(* one-character string ("/", "{", "}", " ", "a", "A", ...) or, where the  *)
(* code never looks inside it, a whole word ("GET", "X-Foo", ...).  The    *)
(* empty string is the empty sequence.                                     *)
(***************************************************************************)
EXTENDS Integers, Sequences, FiniteSets, TLC

VARIABLES
    cors,             \* enrutador.cors: esActivo, origenes, credenciales, duracion
    patronesDeRutas,  \* enrutador.patronesDeRutas: patronDeRuta -> patronDeRutaDetalle
    finalizado,       \* TRUE once finalizar() has called os.Exit(2)
    registradas,      \* history: the <<metodo, ruta>> pairs registered with success
    declarados,       \* history: the header names declared so far on each pattern
    ultimo,           \* the last router operation, or the last Ejecutar, with its results
    funciones,        \* interceptores.funciones
    compuesto,        \* the ManejadorFunc returned by the last Ejecutar
    bitacora,         \* the markers recorded by the last call of that ManejadorFunc
    monton,           \* the errorAPIREST nodes allocated so far; a *errorAPIREST is an index
    linaje,           \* history: for each node, the nodes of its chain as they were linked
    iniciado,         \* TRUE once IniciarPorHTTP / IniciarPorHTTPS has been called
    solicitudes,      \* the requests in flight, each with the context its handler received
    mapas             \* the map[string]string values made for the requests in flight

varsErrores == <<monton, linaje>>
varsServicio == <<iniciado, solicitudes, mapas>>

vars == <<cors, patronesDeRutas, finalizado, registradas, declarados, ultimo,
          funciones, compuesto, bitacora, varsErrores, varsServicio>>

----------------------------------------------------------------------------
(* Bounds of the model.                                                    *)

\* most parts (segments) of a route template compiled under SpecRuta
MaxPartes == 2
\* most endpoints registered on one router under Spec and SpecCORS
MaxEndpoints == 2
\* most interceptors held by one list
MaxInterceptores == 3
\* most error nodes allocated under SpecErrores
MaxErrores == 3
\* most requests served, one beside the other, under SpecServicio
MaxSolicitudes == 2
\* most error nodes allocated under SpecMensajes
MaxAnotados == 2

----------------------------------------------------------------------------
(* package strings, strconv                                                *)

Rango(s) == {s[i] : i \in 1..Len(s)}

\* unicode.ToLower on one symbol
Minuscula(c) ==
    CASE c = "A" -> "a"
      [] c = "B" -> "b"
      [] c = "X" -> "x"
      [] c = "Y" -> "y"
      [] c = "X-Foo" -> "x-foo"
      [] c = "X-Bar" -> "x-bar"
      [] c = "X-Tot" -> "x-tot"
      [] OTHER -> c

\* strings.ToLower
ToLower(s) == [i \in 1..Len(s) |-> Minuscula(s[i])]

RECURSIVE TrimIzquierda(_)
TrimIzquierda(s) ==
    IF s # <<>> /\ Head(s) = " " THEN TrimIzquierda(Tail(s)) ELSE s

RECURSIVE TrimDerecha(_)
TrimDerecha(s) ==
    IF s # <<>> /\ s[Len(s)] = " " THEN TrimDerecha(SubSeq(s, 1, Len(s) - 1)) ELSE s

\* strings.Trim(s, " ")
Trim(s) == TrimDerecha(TrimIzquierda(s))

\* strings.Index(s, c): zero-based index of the first c in s, -1 when absent
Index(s, c) ==
    IF c \in Rango(s)
    THEN (CHOOSE i \in 1..Len(s) : s[i] = c /\ \A j \in 1..(i - 1) : s[j] # c) - 1
    ELSE -1

\* strings.Split(s, sep) for a one-symbol separator: never empty, Split("") = [""]
RECURSIVE Split(_, _)
Split(s, sep) ==
    LET i == Index(s, sep)
    IN  IF i = -1 THEN <<s>>
        ELSE <<SubSeq(s, 1, i)>> \o Split(SubSeq(s, i + 2, Len(s)), sep)

\* strings.Join(partes, sep)
RECURSIVE Join(_, _)
Join(partes, sep) ==
    IF partes = <<>> THEN <<>>
    ELSE IF Len(partes) = 1 THEN partes[1]
    ELSE partes[1] \o sep \o Join(Tail(partes), sep)

\* strconv.FormatBool
FormatBool(b) == IF b THEN <<"t", "r", "u", "e">> ELSE <<"f", "a", "l", "s", "e">>

Digito(d) ==
    CASE d = 0 -> "0" [] d = 1 -> "1" [] d = 2 -> "2" [] d = 3 -> "3" [] d = 4 -> "4"
      [] d = 5 -> "5" [] d = 6 -> "6" [] d = 7 -> "7" [] d = 8 -> "8" [] d = 9 -> "9"

RECURSIVE Digitos(_)
Digitos(n) == IF n < 10 THEN <<Digito(n)>> ELSE Append(Digitos(n \div 10), Digito(n % 10))

\* strconv.Itoa
Itoa(n) == IF n < 0 THEN <<"-">> \o Digitos(-n) ELSE Digitos(n)

----------------------------------------------------------------------------
(* enrutador.rutaAPatronDeRuta: the pattern compiler                       *)

\* the three fmt.Errorf values of rutaAPatronDeRuta, and nil
ErrNil == "nil"
ErrRutaVacia == "la ruta recibida esta vacia"
ErrSinNombre == "existe al menos una parte de la ruta que no contiene un nombre de variable"
ErrSinLlave == "el nombre de variable no contiene la llave de cierre"

ComodinV == <<"{", "v", "}">>

\* partesRuta after the leading and the trailing empty part are dropped
PartesRuta(s) ==
    LET p0 == Split(s, "/")
        p1 == IF p0[1] = <<>> THEN Tail(p0) ELSE p0
    IN  IF p1[Len(p1)] = <<>> THEN SubSeq(p1, 1, Len(p1) - 1) ELSE p1

\* the binding recorded with the one-based index of the part as its position
VariableDeBaseUno(p, i) == [posicion |-> i, nombre |-> SubSeq(p, 2, Len(p) - 1)]

\* variable{nombre: p[1 : len(p)-1], posicion: pos} for the part p whose
\* (one-based) index is i: pos is the zero-based index of the part
VariableDe(p, i) == [posicion |-> i - 1, nombre |-> SubSeq(p, 2, Len(p) - 1)]

\* the loop over partesRuta from (one-based) index i on, with the parts and
\* variables accumulated so far; an error returns at once
RECURSIVE CompilarPartes(_, _, _, _)
CompilarPartes(partesRuta, i, partes, variables) ==
    IF i > Len(partesRuta)
    THEN [pr |-> <<"/">> \o Join(partes, <<"/">>), variables |-> variables, err |-> ErrNil]
    ELSE LET p == ToLower(Trim(partesRuta[i]))
         IN  IF Index(p, "{") = -1
             THEN CompilarPartes(partesRuta, i + 1, Append(partes, p), variables)
             ELSE IF Len(p) = 2
             THEN [pr |-> <<>>, variables |-> <<>>, err |-> ErrSinNombre]
             ELSE IF Index(p, "}") = -1
             THEN [pr |-> <<>>, variables |-> <<>>, err |-> ErrSinLlave]
             ELSE CompilarPartes(partesRuta, i + 1, Append(partes, ComodinV),
                      Append(variables, VariableDe(p, i)))

rutaAPatronDeRuta(s) ==
    IF s = <<>>
    THEN [pr |-> <<>>, variables |-> <<>>, err |-> ErrRutaVacia]
    ELSE CompilarPartes(PartesRuta(s), 1, <<>>, <<>>)

----------------------------------------------------------------------------
(* enrutador.buscarPatronDeRuta: the matcher                               *)

\* partesRutaRecibida once the leading empty part is dropped
PartesSinPrimera(rutaRecibida) ==
    LET p0 == Split(rutaRecibida, "/")
    IN  IF p0[1] = <<>> THEN Tail(p0) ELSE p0

\* partesRutaRecibida[len(partesRutaRecibida)-1] on an empty slice: the index
\* is out of range and the goroutine panics
PanicoAlBuscar(rutaRecibida) == PartesSinPrimera(rutaRecibida) = <<>>

\* partesRutaRecibida after both trims (when there is no panic)
PartesRutaRecibida(rutaRecibida) ==
    LET p1 == PartesSinPrimera(rutaRecibida)
    IN  IF p1[Len(p1)] = <<>> THEN SubSeq(p1, 1, Len(p1) - 1) ELSE p1

\* strings.Split(pr.string(), "/")[1:]
PartesPatronDeRuta(pr) == Tail(Split(pr, "/"))

\* the switch on one part of the pattern: TRUE when it leaves encontrado alone
ParteCoincide(partePatronActual, parteRecibida) ==
    \/ partePatronActual = parteRecibida
    \/ partePatronActual = ComodinV /\ partePatronActual # parteRecibida

\* encontrado after the inner loop (nothing sets it back to true)
Coincide(pr, partesRecibida) ==
    LET partesPatron == PartesPatronDeRuta(pr)
    IN  /\ Len(partesRecibida) = Len(partesPatron)
        /\ \A i \in 1..Len(partesPatron) : ParteCoincide(partesPatron[i], partesRecibida[i])

\* variables[variable.nombre] = partesRutaRecibida[variable.posicion], in the
\* order of detallePtr.variables: a later binding overwrites an equal name
RECURSIVE MapaDeVariables(_, _, _)
MapaDeVariables(variables, partesRecibida, mapa) ==
    IF variables = <<>> THEN mapa
    ELSE LET v == Head(variables)
             valor == partesRecibida[v.posicion + 1]
             sinV == [n \in (DOMAIN mapa) \ {v.nombre} |-> mapa[n]]
         IN  MapaDeVariables(Tail(variables), partesRecibida, (v.nombre :> valor) @@ sinV)

\* the patterns the range over the map can return: Go visits a map in an
\* unspecified order and the loop returns at the first pattern that matches
PatronesCoincidentes(tabla, rutaRecibida) ==
    {pr \in DOMAIN tabla : Coincide(pr, PartesRutaRecibida(rutaRecibida))}

----------------------------------------------------------------------------
(* errores.go: an error value is the chain of its nodes, newest first; the *)
(* tail of the chain is errAnterior, the empty chain is nil.               *)

ClaseAPIREST == "errorAPIREST"
ClaseOtro == "error"

\* errorNuevo: a node with a kind and no previous error
errorNuevo(estadoHTTP) == <<[clase |-> ClaseAPIREST, estadoHTTP |-> estadoHTTP]>>

\* ErrorNuevoRastro giving its node a kind of its own
ErrorNuevoRastroConTipo(err) == <<[clase |-> ClaseAPIREST, estadoHTTP |-> 500]>> \o err

\* ErrorNuevoRastro: a node with no kind in front of err
ErrorNuevoRastro(err) == <<[clase |-> ClaseAPIREST, estadoHTTP |-> 0]>> \o err

\* an error of another package (errors.New)
ErrorAjeno == <<[clase |-> ClaseOtro, estadoHTTP |-> 0]>>

NodoNil == [clase |-> "nil", estadoHTTP |-> 0]

\* ErrorEsAPIREST answering the first node, with estadoHTTP set or not
ErrorEsAPIRESTSinSaltar(err) ==
    IF err = <<>> \/ Head(err).clase # ClaseAPIREST
    THEN [nodo |-> NodoNil, ok |-> FALSE]
    ELSE [nodo |-> Head(err), ok |-> TRUE]

\* ErrorEsAPIREST: the first node with estadoHTTP set
RECURSIVE ErrorEsAPIREST(_)
ErrorEsAPIREST(err) ==
    IF err = <<>> \/ Head(err).clase # ClaseAPIREST
    THEN [nodo |-> NodoNil, ok |-> FALSE]
    ELSE IF Head(err).estadoHTTP # 0
    THEN [nodo |-> Head(err), ok |-> TRUE]
    ELSE ErrorEsAPIREST(Tail(err))

----------------------------------------------------------------------------
(* The error nodes as allocated objects.  A *errorAPIREST is the index of  *)
(* its node in monton; an error value is such an index, PunteroNil for the *)
(* nil error, or PunteroAjeno for an error of another type.                *)

PunteroNil == 0
PunteroAjeno == 0 - 1

\* the error values a caller can hold
Punteros == {PunteroNil, PunteroAjeno} \cup (1..Len(monton))

\* errorRastro with no field assigned
RastroVacio ==
    [Paquete |-> <<>>, Archivo |-> <<>>, Funcion |-> <<>>, NroLinea |-> 0,
     Observaciones |-> <<>>]

\* the source file of errores.go as the runtime names it: a path whose last
\* three characters are ".go"
ArchivoErrores == <<"/", "apirest", "/", "errores", ".", "g", "o">>

\* the frames of the library that are on the stack while asignarRastro runs
MarcoAsignarRastro ==
    [archivo |-> ArchivoErrores,
     funcion |-> <<"apirest", ".", "(*errorAPIREST).asignarRastro">>, linea |-> 146]

MarcoErrorNuevo ==
    [archivo |-> ArchivoErrores, funcion |-> <<"apirest", ".", "errorNuevo">>, linea |-> 164]

MarcoErrorNuevoTipado ==
    [archivo |-> ArchivoErrores,
     funcion |-> <<"apirest", ".", "ErrorNuevoNoEncontrado">>, linea |-> 282]

MarcoErrorNuevoRastro ==
    [archivo |-> ArchivoErrores,
     funcion |-> <<"apirest", ".", "ErrorNuevoRastro">>, linea |-> 206]

\* the stack, innermost frame first, when a typed constructor called at sitio
\* has called errorNuevo and that has called asignarRastro
PilaDeErrorNuevo(sitio) ==
    <<MarcoAsignarRastro, MarcoErrorNuevo, MarcoErrorNuevoTipado, sitio>>

\* the stack, innermost frame first, when ErrorNuevoRastro called at sitio has
\* called asignarRastro
PilaDeErrorNuevoRastro(sitio) == <<MarcoAsignarRastro, MarcoErrorNuevoRastro, sitio>>

\* runtime.Caller(skip): the frame skip levels above the running function
Caller(pila, skip) ==
    IF skip + 1 <= Len(pila)
    THEN [ok |-> TRUE, marco |-> pila[skip + 1]]
    ELSE [ok |-> FALSE, marco |-> [archivo |-> <<>>, funcion |-> <<>>, linea |-> 0]]

\* strings.LastIndex(s, c): the zero-based index of the last c in s, or -1
LastIndex(s, c) ==
    IF \E i \in 1..Len(s) : s[i] = c
    THEN (CHOOSE i \in 1..Len(s) : s[i] = c /\ \A j \in (i + 1)..Len(s) : s[j] # c) - 1
    ELSE 0 - 1

\* asignarRastro(profundidad): Paquete from the second result of
\* runtime.Caller(0), which is the file of the running function; Archivo,
\* Funcion and NroLinea from runtime.Caller(profundidad + 1), Archivo being
\* archivo[LastIndex(archivo, "/")+1 : len(archivo)-3]
asignarRastro(rastro, pila, profundidad) ==
    LET propio == Caller(pila, 0)
        conPaquete == IF propio.ok
                      THEN [rastro EXCEPT !.Paquete = propio.marco.archivo]
                      ELSE rastro
        llamador == Caller(pila, profundidad + 1)
        archivo == llamador.marco.archivo
    IN  IF llamador.ok
        THEN [conPaquete EXCEPT
                !.Archivo = SubSeq(archivo, LastIndex(archivo, "/") + 2,
                                   Len(archivo) - 3),
                !.Funcion = llamador.marco.funcion,
                !.NroLinea = llamador.marco.linea]
        ELSE conPaquete

\* the node errorNuevo and ErrorNuevoRastro allocate: the fields of nodo,
\* errAnterior, no technical message, no uuid, and the trace asignarRastro
\* takes from the stack
NodoNuevo(nodo, errAnterior, pila, profundidad) ==
    [clase |-> nodo.clase, estadoHTTP |-> nodo.estadoHTTP,
     mensajeTecnico |-> <<>>, uuid |-> <<>>,
     errAnterior |-> errAnterior,
     rastro |-> asignarRastro(RastroVacio, pila, profundidad)]

\* the chain an error value stands for, as the loops of errores.go visit it:
\* err.(*errorAPIREST), then err = errAPIREST.errAnterior
RECURSIVE Cadena(_, _)
Cadena(m, err) ==
    IF err = PunteroNil THEN <<>>
    ELSE IF err = PunteroAjeno THEN ErrorAjeno
    ELSE <<[clase |-> m[err].clase, estadoHTTP |-> m[err].estadoHTTP,
            puntero |-> err, rastro |-> m[err].rastro]>>
         \o Cadena(m, m[err].errAnterior)

\* errorBuscarTipo answering the first node in place of the first of the kind
errorBuscarTipoSinComparar(err, estadoHTTP) ==
    IF err = <<>> \/ Head(err).clase # ClaseAPIREST
    THEN [nodo |-> NodoNil, ok |-> FALSE]
    ELSE [nodo |-> Head(err), ok |-> TRUE]

\* errorBuscarTipo: the first node whose estadoHTTP is the one asked for
RECURSIVE errorBuscarTipo(_, _)
errorBuscarTipo(err, estadoHTTP) ==
    IF err = <<>> \/ Head(err).clase # ClaseAPIREST
    THEN [nodo |-> NodoNil, ok |-> FALSE]
    ELSE IF Head(err).estadoHTTP = estadoHTTP
    THEN [nodo |-> Head(err), ok |-> TRUE]
    ELSE errorBuscarTipo(Tail(err), estadoHTTP)

\* ErrorObtenerRastros putting each trace in front of the ones collected
RECURSIVE ErrorObtenerRastrosAlReves(_)
ErrorObtenerRastrosAlReves(err) ==
    IF err = <<>> \/ Head(err).clase # ClaseAPIREST
    THEN <<>>
    ELSE ErrorObtenerRastrosAlReves(Tail(err)) \o <<Head(err).rastro>>

\* ErrorObtenerRastros: the trace of each node, appended as the loop visits it
RECURSIVE ErrorObtenerRastros(_)
ErrorObtenerRastros(err) ==
    IF err = <<>> \/ Head(err).clase # ClaseAPIREST
    THEN <<>>
    ELSE <<Head(err).rastro>> \o ErrorObtenerRastros(Tail(err))

\* the history of a chain: the indexes of its nodes, newest first
LinajeDe(err) == IF err \in 1..Len(monton) THEN linaje[err] ELSE <<>>

\* ErrorNuevoNoEncontrado, ErrorNuevoInternoDeServidor, ...: errorNuevo with
\* the estadoHTTP of the kind, called at sitio
ErrorNuevoTipado(estadoHTTP, sitio) ==
    /\ Len(monton) < MaxErrores
    /\ monton' = Append(monton, NodoNuevo(Head(errorNuevo(estadoHTTP)), PunteroNil,
                                         PilaDeErrorNuevo(sitio), 2))
    /\ linaje' = Append(linaje, <<Len(monton) + 1>>)
    /\ ultimo' = [op |-> "ErrorNuevo", err |-> Len(monton) + 1, sitio |-> sitio]
    /\ UNCHANGED <<cors, patronesDeRutas, finalizado, registradas, declarados,
                   funciones, compuesto, bitacora, varsServicio>>

\* ErrorNuevoRastro(err) called at sitio
AgregarRastro(err, sitio) ==
    /\ Len(monton) < MaxErrores
    /\ monton' = Append(monton, NodoNuevo(Head(ErrorNuevoRastro(<<>>)), err,
                                         PilaDeErrorNuevoRastro(sitio), 1))
    /\ linaje' = Append(linaje, <<Len(monton) + 1>> \o LinajeDe(err))
    /\ ultimo' = [op |-> "ErrorNuevoRastro", err |-> Len(monton) + 1,
                  sitio |-> sitio]
    /\ UNCHANGED <<cors, patronesDeRutas, finalizado, registradas, declarados,
                   funciones, compuesto, bitacora, varsServicio>>

\* AsignarMensajeTecnico writing the message over the observation whatever
\* the observation holds
ObservacionSiempreCopiada(observaciones, mensajeTecnico) == mensajeTecnico

\* the observation AsignarMensajeTecnico leaves: the message when the
\* observation is the empty string, the observation as it was otherwise
ObservacionTrasMensaje(observaciones, mensajeTecnico) ==
    IF observaciones = <<>> THEN mensajeTecnico ELSE observaciones

\* err.AsignarMensajeTecnico(...), mensaje being the text fmt.Sprintf gives
AsignarMensajeTecnico(err, mensaje) ==
    /\ err \in 1..Len(monton)
    /\ monton' = [monton EXCEPT ![err] =
                      [@ EXCEPT !.mensajeTecnico = mensaje,
                                !.rastro.Observaciones =
                                    ObservacionTrasMensaje(@, mensaje)]]
    /\ ultimo' = [op |-> "AsignarMensajeTecnico", err |-> err, mensaje |-> mensaje]
    /\ UNCHANGED <<cors, patronesDeRutas, finalizado, registradas, declarados,
                   funciones, compuesto, bitacora, linaje, varsServicio>>

\* err.AsignarObservacionAlRastro(...), observacion being the text
\* fmt.Sprintf gives
AsignarObservacionAlRastro(err, observacion) ==
    /\ err \in 1..Len(monton)
    /\ monton' = [monton EXCEPT ![err].rastro.Observaciones = observacion]
    /\ ultimo' = [op |-> "AsignarObservacionAlRastro", err |-> err,
                  observacion |-> observacion]
    /\ UNCHANGED <<cors, patronesDeRutas, finalizado, registradas, declarados,
                   funciones, compuesto, bitacora, linaje, varsServicio>>

\* a byte is a number of 8 bits
AnchoDeByte == 8

\* x & y and x | y on bytes, bit by bit from the lowest
RECURSIVE YBit(_, _, _)
YBit(x, y, n) ==
    IF n = 0 THEN 0
    ELSE (IF x % 2 = 1 /\ y % 2 = 1 THEN 1 ELSE 0) + 2 * YBit(x \div 2, y \div 2, n - 1)

RECURSIVE OBit(_, _, _)
OBit(x, y, n) ==
    IF n = 0 THEN 0
    ELSE (IF x % 2 = 1 \/ y % 2 = 1 THEN 1 ELSE 0) + 2 * OBit(x \div 2, y \div 2, n - 1)

Y(x, y) == YBit(x, y, AnchoDeByte)
O(x, y) == OBit(x, y, AnchoDeByte)

\* x << k and x >> k on bytes
DesplazarIzquierda(x, k) == (x * (2 ^ k)) % (2 ^ AnchoDeByte)
DesplazarDerecha(x, k) == x \div (2 ^ k)

\* the digits of encoding/hex
TablaHex ==
    <<"0", "1", "2", "3", "4", "5", "6", "7", "8", "9", "a", "b", "c", "d", "e", "f">>

\* hex.Encode(b[inicio:...], src): two digits for each byte of src, the high
\* four bits first, written into b from the zero-based index inicio on
HexEncode(b, inicio, src) ==
    [i \in 1..Len(b) |->
        IF i > inicio /\ i <= inicio + 2 * Len(src)
        THEN LET v == src[((i - inicio - 1) \div 2) + 1]
             IN  IF (i - inicio) % 2 = 1
                 THEN TablaHex[DesplazarDerecha(v, 4) + 1]
                 ELSE TablaHex[Y(v, 15) + 1]
        ELSE b[i]]

\* a[6] = (a[6] & 0x0f) | (versionUUID << 4), versionUUID being byte(4)
ConVersion(v) == O(Y(v, 15), DesplazarIzquierda(4, 4))

\* the variant written over the byte without masking its two highest bits
ConVarianteSinMascara(v) == O(v, DesplazarIzquierda(2, 6))

\* a[8] = (a[8]&(0xff>>2) | (0x02 << 6))
ConVariante(v) == O(Y(v, DesplazarDerecha(255, 2)), DesplazarIzquierda(2, 6))

\* b[i] = '-' for each i of []int{8, 13, 18, 23}
ConGuiones(b) == [i \in 1..Len(b) |-> IF i - 1 \in {8, 13, 18, 23} THEN "-" ELSE b[i]]

\* the string AsignarUUID stores for the 16 bytes a (a[1] is the byte 0)
UUIDDe(a) ==
    LET a1 == [a EXCEPT ![7] = ConVersion(@), ![9] = ConVariante(@)]
        b0 == [i \in 1..36 |-> "0"]
        b1 == HexEncode(b0, 0, SubSeq(a1, 1, 4))
        b2 == HexEncode(b1, 9, SubSeq(a1, 5, 6))
        b3 == HexEncode(b2, 14, SubSeq(a1, 7, 8))
        b4 == HexEncode(b3, 19, SubSeq(a1, 9, 10))
        b5 == HexEncode(b4, 24, SubSeq(a1, 11, 16))
    IN  ConGuiones(b5)

\* err.AsignarUUID(), a being the 16 bytes the random source gives
AsignarUUID(err, a) ==
    /\ err \in 1..Len(monton)
    /\ monton' = [monton EXCEPT ![err].uuid = UUIDDe(a)]
    /\ ultimo' = [op |-> "AsignarUUID", err |-> err, a |-> a]
    /\ UNCHANGED <<cors, patronesDeRutas, finalizado, registradas, declarados,
                   funciones, compuesto, bitacora, linaje, varsServicio>>

\* ErrorEsNoEncontrado(err), ErrorEsInternoDeServidor(err), ...
BuscarTipo(err, estadoHTTP) ==
    /\ ultimo' = [op |-> "errorBuscarTipo", err |-> err, estadoHTTP |-> estadoHTTP,
                  resultado |-> errorBuscarTipo(Cadena(monton, err), estadoHTTP)]
    /\ UNCHANGED <<cors, patronesDeRutas, finalizado, registradas, declarados,
                   funciones, compuesto, bitacora, varsErrores, varsServicio>>

\* ErrorEsAPIREST(err)
BuscarAPIREST(err) ==
    /\ ultimo' = [op |-> "ErrorEsAPIREST", err |-> err,
                  resultado |-> ErrorEsAPIREST(Cadena(monton, err))]
    /\ UNCHANGED <<cors, patronesDeRutas, finalizado, registradas, declarados,
                   funciones, compuesto, bitacora, varsErrores, varsServicio>>

\* ErrorObtenerRastros(err)
ObtenerRastros(err) ==
    /\ ultimo' = [op |-> "ErrorObtenerRastros", err |-> err,
                  rastros |-> ErrorObtenerRastros(Cadena(monton, err))]
    /\ UNCHANGED <<cors, patronesDeRutas, finalizado, registradas, declarados,
                   funciones, compuesto, bitacora, varsErrores, varsServicio>>

----------------------------------------------------------------------------
(* The router: CrearEnrutador, the registration API and the CORS setters.  *)

GET == <<"GET">>
POST == <<"POST">>
OPTIONS == <<"OPTIONS">>

\* the empty map / nil slice
Vacio == <<>>

\* a patronDeRuta that stands for a nil *patronDeRutaDetalle
DetalleNil == <<>>

SinManejador == "ninguno"

\* CrearEnrutador: origenes "*", credenciales false, duracion -1, CORS off
CorsInicial ==
    [esActivo |-> FALSE, origenes |-> << <<"*">> >>, credenciales |-> FALSE, duracion |-> -1]

UltimoInicial == [op |-> "CrearEnrutador"]

\* endpoints held by the whole route table
NumeroDeEndpoints(tabla) ==
    Cardinality(UNION {{<<pr, m>> : m \in DOMAIN tabla[pr].endpoints} : pr \in DOMAIN tabla})

\* mutant of NombresDistintos: the names are never compared
NombresDistintosSinComparar(detVariables, variables) == FALSE

\* the loop "for i := 0; i < len(detallePtr.variables); i++": TRUE when some
\* name recorded for the pattern differs from the name compiled at the same index
NombresDistintos(detVariables, variables) ==
    \E i \in 1..Len(detVariables) :
        /\ i <= Len(variables)
        /\ detVariables[i].nombre # variables[i].nombre

\* the same loop reading variables[i] past the end of the compiled list
IndiceFueraDeRango(detVariables, variables) ==
    /\ Len(variables) < Len(detVariables)
    /\ \A j \in 1..Len(variables) : detVariables[j].nombre = variables[j].nombre

\* mutant of YaPoseeMetodo: the method is never looked up
YaPoseeMetodoSinBuscar(tabla, pr, metodo) == FALSE

\* "if _, ok := o.patronesDeRutas[pr].endpoints[metodo]; ok"
YaPoseeMetodo(tabla, pr, metodo) == metodo \in DOMAIN tabla[pr].endpoints

\* what nuevoEndpoint does with the compiled route c
SalidaDeNuevoEndpoint(tabla, metodo, c) ==
    IF c.err # ErrNil THEN "finalizar"
    ELSE IF c.pr \notin DOMAIN tabla THEN "creado"
    ELSE IF IndiceFueraDeRango(tabla[c.pr].variables, c.variables) THEN "panico"
    ELSE IF NombresDistintos(tabla[c.pr].variables, c.variables) THEN "finalizar"
    ELSE IF YaPoseeMetodo(tabla, c.pr, metodo) THEN "finalizar"
    ELSE "agregado"

\* nuevoEndpoint making a detail of its own for every registration
TablaTrasNuevoEndpointSinCompartir(tabla, metodo, funcion, c, salida) ==
    IF salida \in {"creado", "agregado"}
    THEN [pr \in DOMAIN tabla \cup {c.pr} |->
             IF pr = c.pr
             THEN [metodosPermitidos |-> <<metodo>>,
                   camposRequeridos |-> Vacio,
                   camposExpuestos |-> Vacio,
                   endpoints |-> (metodo :> funcion),
                   variables |-> c.variables]
             ELSE tabla[pr]]
    ELSE tabla

\* the route table nuevoEndpoint leaves behind
TablaTrasNuevoEndpoint(tabla, metodo, funcion, c, salida) ==
    IF salida = "creado"
    THEN (c.pr :> [metodosPermitidos |-> <<metodo>>,
                   camposRequeridos |-> Vacio,
                   camposExpuestos |-> Vacio,
                   endpoints |-> (metodo :> funcion),
                   variables |-> c.variables]) @@ tabla
    ELSE IF salida = "agregado"
    THEN [tabla EXCEPT ![c.pr] =
             [@ EXCEPT !.metodosPermitidos = Append(@, metodo),
                       !.endpoints = (metodo :> funcion) @@ @]]
    ELSE tabla

\* enrutador.nuevoEndpoint, reached through GET, POST, PUT, PATCH and DELETE.
\* finalizar prints and calls os.Exit(2); a panic ends the process as well.
nuevoEndpoint(metodo, ruta, funcion) ==
    /\ ~finalizado
    /\ NumeroDeEndpoints(patronesDeRutas) < MaxEndpoints
    /\ LET c == rutaAPatronDeRuta(ruta)
           salida == SalidaDeNuevoEndpoint(patronesDeRutas, metodo, c)
       IN  /\ patronesDeRutas' = TablaTrasNuevoEndpoint(patronesDeRutas, metodo, funcion, c, salida)
           /\ finalizado' = (salida \in {"finalizar", "panico"})
           /\ registradas' = IF salida \in {"creado", "agregado"}
                             THEN registradas \cup {<<metodo, ruta>>}
                             ELSE registradas
           /\ ultimo' = [op |-> "nuevoEndpoint", metodo |-> metodo, ruta |-> ruta,
                         funcion |-> funcion, pr |-> c.pr, variables |-> c.variables,
                         err |-> c.err, salida |-> salida]
    /\ UNCHANGED <<cors, declarados, funciones, compuesto, bitacora,
                   varsErrores, varsServicio>>

\* mutant of AgregarCampos: only the case is ignored, not the spaces around
RECURSIVE AgregarCamposSinTrim(_, _)
AgregarCamposSinTrim(existentes, campos) ==
    IF campos = <<>> THEN existentes
    ELSE LET campo == Head(campos)
             esExistente == \E i \in 1..Len(existentes) :
                                ToLower(campo) = ToLower(existentes[i])
         IN  AgregarCamposSinTrim(IF esExistente THEN existentes ELSE Append(existentes, campo),
                                  Tail(campos))

\* the body shared by endpoint.CORSCamposRequeridos and CORSCamposExpuestos:
\* append each campo that equals no held campo once both are lower-cased and trimmed
RECURSIVE AgregarCampos(_, _)
AgregarCampos(existentes, campos) ==
    IF campos = <<>> THEN existentes
    ELSE LET campo == Head(campos)
             esExistente == \E i \in 1..Len(existentes) :
                                Trim(ToLower(campo)) = Trim(ToLower(existentes[i]))
         IN  AgregarCampos(IF esExistente THEN existentes ELSE Append(existentes, campo),
                           Tail(campos))

\* (o *endpoint) CORSCamposRequeridos, o being the endpoint of metodo on pr
CORSCamposRequeridos(pr, metodo, campos) ==
    /\ ~finalizado
    /\ pr \in DOMAIN patronesDeRutas
    /\ metodo \in DOMAIN patronesDeRutas[pr].endpoints
    /\ patronesDeRutas' = [patronesDeRutas EXCEPT
           ![pr].camposRequeridos = AgregarCampos(@, campos)]
    /\ declarados' = [declarados EXCEPT
           !.requeridos = @ \cup {<<pr, campos[i]>> : i \in 1..Len(campos)}]
    /\ ultimo' = [op |-> "CORSCamposRequeridos", pr |-> pr, metodo |-> metodo]
    /\ UNCHANGED <<cors, finalizado, registradas, funciones, compuesto, bitacora,
                   varsErrores, varsServicio>>

\* (o *endpoint) CORSCamposExpuestos
CORSCamposExpuestos(pr, metodo, campos) ==
    /\ ~finalizado
    /\ pr \in DOMAIN patronesDeRutas
    /\ metodo \in DOMAIN patronesDeRutas[pr].endpoints
    /\ patronesDeRutas' = [patronesDeRutas EXCEPT
           ![pr].camposExpuestos = AgregarCampos(@, campos)]
    /\ declarados' = [declarados EXCEPT
           !.expuestos = @ \cup {<<pr, campos[i]>> : i \in 1..Len(campos)}]
    /\ ultimo' = [op |-> "CORSCamposExpuestos", pr |-> pr, metodo |-> metodo]
    /\ UNCHANGED <<cors, finalizado, registradas, funciones, compuesto, bitacora,
                   varsErrores, varsServicio>>

CORSActivar ==
    /\ ~finalizado
    /\ cors' = [cors EXCEPT !.esActivo = TRUE]
    /\ ultimo' = [op |-> "CORSActivar"]
    /\ UNCHANGED <<patronesDeRutas, finalizado, registradas, declarados,
                   funciones, compuesto, bitacora,
                   varsErrores, varsServicio>>

CORSOrigenes(origenes) ==
    /\ ~finalizado
    /\ cors' = [cors EXCEPT !.origenes = origenes]
    /\ ultimo' = [op |-> "CORSOrigenes"]
    /\ UNCHANGED <<patronesDeRutas, finalizado, registradas, declarados,
                   funciones, compuesto, bitacora,
                   varsErrores, varsServicio>>

COSCredenciales(credenciales) ==
    /\ ~finalizado
    /\ cors' = [cors EXCEPT !.credenciales = credenciales]
    /\ ultimo' = [op |-> "COSCredenciales"]
    /\ UNCHANGED <<patronesDeRutas, finalizado, registradas, declarados,
                   funciones, compuesto, bitacora,
                   varsErrores, varsServicio>>

CORSDuracion(duracion) ==
    /\ ~finalizado
    /\ cors' = [cors EXCEPT !.duracion = duracion]
    /\ ultimo' = [op |-> "CORSDuracion"]
    /\ UNCHANGED <<patronesDeRutas, finalizado, registradas, declarados,
                   funciones, compuesto, bitacora,
                   varsErrores, varsServicio>>

----------------------------------------------------------------------------
(* enrutador.ServeHTTP: the dispatcher                                     *)

\* the names of the six CORS header fields (var cors)
AccessControlAllowOrigin == "Access-Control-Allow-Origin"
AccessControlAllowCredentials == "Access-Control-Allow-Credentials"
AccessControlMaxAge == "Access-Control-Max-Age"
AccessControlAllowMethods == "Access-Control-Allow-Methods"
AccessControlAllowHeaders == "Access-Control-Allow-Headers"
AccessControlExposeHeaders == "Access-Control-Expose-Headers"

ComaEspacio == <<",", " ">>

\* rutaRecibida: r.RequestURI cut at the first "?" when it is not at index 0
QuitarConsulta(uri) ==
    LET pos == Index(uri, "?")
    IN  IF pos > 0 THEN SubSeq(uri, 1, pos) ELSE uri

\* mutant of CabecerasDeOptions: the required and the exposed fields change places
CabecerasDeOptionsCruzadas(c, detalle) ==
    (AccessControlAllowOrigin :> Join(c.origenes, ComaEspacio)) @@
    (AccessControlAllowCredentials :> FormatBool(c.credenciales)) @@
    (AccessControlMaxAge :> Itoa(c.duracion)) @@
    (AccessControlAllowMethods :> Join(detalle.metodosPermitidos, ComaEspacio)) @@
    (AccessControlAllowHeaders :> Join(detalle.camposExpuestos, ComaEspacio)) @@
    (AccessControlExposeHeaders :> Join(detalle.camposRequeridos, ComaEspacio))

\* the six w.Header().Set calls of the OPTIONS branch
CabecerasDeOptions(c, detalle) ==
    (AccessControlAllowOrigin :> Join(c.origenes, ComaEspacio)) @@
    (AccessControlAllowCredentials :> FormatBool(c.credenciales)) @@
    (AccessControlMaxAge :> Itoa(c.duracion)) @@
    (AccessControlAllowMethods :> Join(detalle.metodosPermitidos, ComaEspacio)) @@
    (AccessControlAllowHeaders :> Join(detalle.camposRequeridos, ComaEspacio)) @@
    (AccessControlExposeHeaders :> Join(detalle.camposExpuestos, ComaEspacio))

\* the assignments to cabecerasCORS with the exposed fields left out
CabecerasDeContextoSinExpuestos(c, detalle) ==
    (AccessControlAllowOrigin :> Join(c.origenes, ComaEspacio)) @@
    (AccessControlAllowCredentials :> FormatBool(c.credenciales)) @@
    (AccessControlMaxAge :> Itoa(c.duracion)) @@
    (AccessControlAllowMethods :> Join(detalle.metodosPermitidos, ComaEspacio)) @@
    (AccessControlAllowHeaders :> Join(detalle.camposRequeridos, ComaEspacio))

\* the six assignments to cabecerasCORS before the handler is called
CabecerasDeContexto(c, detalle) ==
    (AccessControlAllowOrigin :> Join(c.origenes, ComaEspacio)) @@
    (AccessControlAllowCredentials :> FormatBool(c.credenciales)) @@
    (AccessControlMaxAge :> Itoa(c.duracion)) @@
    (AccessControlAllowMethods :> Join(detalle.metodosPermitidos, ComaEspacio)) @@
    (AccessControlAllowHeaders :> Join(detalle.camposRequeridos, ComaEspacio)) @@
    (AccessControlExposeHeaders :> Join(detalle.camposExpuestos, ComaEspacio))

\* what ServeHTTP has written when it returns without having found a route
\* (estado 0: WriteHeader was not called; http.Error's own two header fields
\* and the message body are left out)
RespuestaBase(metodoRecibido, uri) ==
    [op |-> "ServeHTTP", metodo |-> metodoRecibido, uri |-> uri,
     panico |-> FALSE, encontrado |-> FALSE, detalle |-> DetalleNil, variables |-> Vacio,
     estado |-> 0, cabeceras |-> Vacio, manejador |-> SinManejador,
     ctxCORS |-> [hay |-> FALSE, mapa |-> Vacio],
     ctxVariables |-> [hay |-> FALSE, mapa |-> Vacio],
     retorno |-> Vacio]

\* the status http.Error writes when the pattern has no endpoint for the method
EstadoSinMetodo == 404

\* ServeHTTP from "var cabecerasCORS" on, for the pattern pr returned by
\* buscarPatronDeRuta; err is the error the handler returns if it is called
Despachar(c, tabla, metodoRecibido, uri, pr, err) ==
    LET detalle == tabla[pr]
        variables == MapaDeVariables(detalle.variables,
                                     PartesRutaRecibida(QuitarConsulta(uri)), Vacio)
        base == [RespuestaBase(metodoRecibido, uri) EXCEPT
                    !.encontrado = TRUE, !.detalle = pr, !.variables = variables]
    IN  IF metodoRecibido = OPTIONS
        THEN IF ~c.esActivo
             THEN [base EXCEPT !.estado = 404]
             ELSE [base EXCEPT !.estado = 204, !.cabeceras = CabecerasDeOptions(c, detalle)]
        ELSE IF metodoRecibido \notin DOMAIN detalle.endpoints
        THEN [base EXCEPT !.estado = EstadoSinMetodo]
        ELSE [base EXCEPT
                 !.manejador = detalle.endpoints[metodoRecibido],
                 !.ctxCORS = IF c.esActivo
                             THEN [hay |-> TRUE, mapa |-> CabecerasDeContexto(c, detalle)]
                             ELSE @,
                 !.ctxVariables = IF variables # Vacio
                                  THEN [hay |-> TRUE, mapa |-> variables]
                                  ELSE @,
                 \* "ep.funcion(w, r.WithContext(ctx))": both results are dropped
                 !.retorno = err]

\* enrutador.ServeHTTP for one request
ServeHTTP(metodoRecibido, uri, err) ==
    /\ ~finalizado
    /\ LET rutaRecibida == QuitarConsulta(uri)
       IN  IF PanicoAlBuscar(rutaRecibida)
           THEN ultimo' = [RespuestaBase(metodoRecibido, uri) EXCEPT !.panico = TRUE]
           ELSE LET coincidentes == PatronesCoincidentes(patronesDeRutas, rutaRecibida)
                IN  IF coincidentes = {}
                    THEN ultimo' = [RespuestaBase(metodoRecibido, uri) EXCEPT !.estado = 404]
                    ELSE \E pr \in coincidentes :
                             ultimo' = Despachar(cors, patronesDeRutas, metodoRecibido,
                                                 uri, pr, err)
    /\ UNCHANGED <<cors, patronesDeRutas, finalizado, registradas, declarados,
                   funciones, compuesto, bitacora,
                   varsErrores, varsServicio>>

----------------------------------------------------------------------------
(* Requests in flight.  net/http runs ServeHTTP for each request in a       *)
(* goroutine of its own; the handler it calls then runs step by step.  A    *)
(* map[string]string is the address <<s, i>> of the i-th map made by the    *)
(* goroutine of request s, whose content is mapas[s][i]; SinValor is a      *)
(* context key with no value.  A map that is made and never put in a        *)
(* context is left out, no code can reach it.                               *)

SinValor == <<0, 0>>

\* context.Background(): neither "cors" nor "variables" has a value
CtxVacio == [cors |-> SinValor, variables |-> SinValor]

SolicitudLibre ==
    [fase |-> "libre", metodo |-> <<>>, uri |-> <<>>, detalle |-> DetalleNil,
     ctx |-> CtxVacio, obtenido |-> CtxVacio, escritas |-> {}]

\* a request that was answered: nothing of it is kept
SolicitudTerminada == [SolicitudLibre EXCEPT !.fase = "terminada"]

\* make(map[string]string) answering a map that is in use already
MapaCompartido(m, s) == <<1, 1>>

\* make(map[string]string): a map no one else holds
NuevoMapa(m, s) == <<s, Len(m[s]) + 1>>

\* the content of the map at p
Contenido(m, p) == m[p[1]][p[2]]

\* p is the address of a map that was made
Alojado(m, p) == p[1] \in DOMAIN m /\ p[2] \in 1..Len(m[p[1]])

\* the maps once the one at p has the content given
Alojar(m, p, contenido) ==
    [m EXCEPT ![p[1]] = IF p[2] > Len(@) THEN Append(@, contenido)
                        ELSE [@ EXCEPT ![p[2]] = contenido]]

\* context.WithValue(ctx, clave, mapa) for a map the dispatcher has made and
\* filled, when it attaches one
Adjuntar(m, s, valor) ==
    IF valor.hay
    THEN [mapas |-> Alojar(m, NuevoMapa(m, s), valor.mapa), puntero |-> NuevoMapa(m, s)]
    ELSE [mapas |-> m, puntero |-> SinValor]

\* the responses ServeHTTP can give to one request
Respuestas(c, tabla, metodoRecibido, uri) ==
    LET rutaRecibida == QuitarConsulta(uri)
    IN  IF PanicoAlBuscar(rutaRecibida)
        THEN {[RespuestaBase(metodoRecibido, uri) EXCEPT !.panico = TRUE]}
        ELSE LET coincidentes == PatronesCoincidentes(tabla, rutaRecibida)
             IN  IF coincidentes = {}
                 THEN {[RespuestaBase(metodoRecibido, uri) EXCEPT !.estado = 404]}
                 ELSE {Despachar(c, tabla, metodoRecibido, uri, pr, <<>>) :
                           pr \in coincidentes}

\* enrutador.ServeHTTP for request s, up to the call of the handler
Atender(s, metodoRecibido, uri) ==
    /\ ~finalizado
    /\ solicitudes[s].fase = "libre"
    /\ \A t \in 1..(s - 1) : solicitudes[t].fase # "libre"
    /\ \E r \in Respuestas(cors, patronesDeRutas, metodoRecibido, uri) :
           LET v == Adjuntar(mapas, s, r.ctxVariables)
               k == Adjuntar(v.mapas, s, r.ctxCORS)
           IN  /\ ultimo' = r
               /\ mapas' = k.mapas
               /\ solicitudes' =
                      [solicitudes EXCEPT ![s] =
                          IF r.manejador = SinManejador
                          THEN SolicitudTerminada
                          ELSE [@ EXCEPT !.fase = "manejador",
                                         !.metodo = metodoRecibido,
                                         !.uri = uri,
                                         !.detalle = r.detalle,
                                         !.ctx = [cors |-> k.puntero,
                                                  variables |-> v.puntero]]]
    /\ UNCHANGED <<cors, patronesDeRutas, finalizado, registradas, declarados,
                   funciones, compuesto, bitacora, varsErrores, iniciado>>

\* a handler called with a request that did not come through ServeHTTP
SolicitudDirecta(s) ==
    /\ solicitudes[s].fase = "libre"
    /\ \A t \in 1..(s - 1) : solicitudes[t].fase # "libre"
    /\ solicitudes' = [solicitudes EXCEPT ![s] = [@ EXCEPT !.fase = "manejador"]]
    /\ UNCHANGED <<cors, patronesDeRutas, finalizado, registradas, declarados, ultimo,
                   funciones, compuesto, bitacora, varsErrores, iniciado, mapas>>

\* the lookups answering a map of their own whatever the context holds
MapaObtenidoSinMirar(adjunto, nuevo) == nuevo

\* "m, ok := r.Context().Value(clave).(map[string]string)": the map of the
\* context, or map[string]string{}
MapaObtenido(adjunto, nuevo) == IF adjunto # SinValor THEN adjunto ELSE nuevo

\* ObtenerVariablesDeRuta(r) / ObtenerCORS(r) called by the handler of s
Obtener(s, clave) ==
    /\ solicitudes[s].fase = "manejador"
    /\ solicitudes[s].obtenido[clave] = SinValor
    /\ LET adjunto == solicitudes[s].ctx[clave]
           p == MapaObtenido(adjunto, NuevoMapa(mapas, s))
       IN  /\ mapas' = IF Alojado(mapas, p) THEN mapas ELSE Alojar(mapas, p, Vacio)
           /\ solicitudes' = [solicitudes EXCEPT ![s].obtenido[clave] = p]
    /\ UNCHANGED <<cors, patronesDeRutas, finalizado, registradas, declarados, ultimo,
                   funciones, compuesto, bitacora, varsErrores, iniciado>>

ObtenerVariablesDeRuta(s) == Obtener(s, "variables")

ObtenerCORS(s) == Obtener(s, "cors")

\* the handler of s assigns m[campo] = valor in a map it has obtained
EscribirEnMapa(s, clave, campo, valor) ==
    /\ solicitudes[s].fase = "manejador"
    /\ solicitudes[s].obtenido[clave] # SinValor
    /\ <<clave, campo>> \notin solicitudes[s].escritas
    /\ mapas' = Alojar(mapas, solicitudes[s].obtenido[clave],
                       (campo :> valor) @@ Contenido(mapas, solicitudes[s].obtenido[clave]))
    /\ solicitudes' = [solicitudes EXCEPT ![s].escritas = @ \cup {<<clave, campo>>}]
    /\ UNCHANGED <<cors, patronesDeRutas, finalizado, registradas, declarados, ultimo,
                   funciones, compuesto, bitacora, varsErrores, iniciado>>

\* the maps a request holds: those of its context and those its lookups gave
MapasDe(s) ==
    {solicitudes[s].ctx.cors, solicitudes[s].ctx.variables,
     solicitudes[s].obtenido.cors, solicitudes[s].obtenido.variables} \ {SinValor}

\* the handler of s returns: the request is answered, and its maps, which no
\* one holds any more, are collected (their indexes are not used again)
Terminar(s) ==
    /\ solicitudes[s].fase = "manejador"
    /\ solicitudes' = [solicitudes EXCEPT ![s] = SolicitudTerminada]
    /\ mapas' = [t \in DOMAIN mapas |->
                     [i \in 1..Len(mapas[t]) |->
                         IF <<t, i>> \in MapasDe(s) THEN Vacio ELSE mapas[t][i]]]
    /\ UNCHANGED <<cors, patronesDeRutas, finalizado, registradas, declarados, ultimo,
                   funciones, compuesto, bitacora, varsErrores, iniciado>>

\* IniciarPorHTTP / IniciarPorHTTPS: the server begins accepting requests
IniciarPorHTTP ==
    /\ ~finalizado
    /\ ~iniciado
    /\ iniciado' = TRUE
    /\ ultimo' = [op |-> "IniciarPorHTTP"]
    /\ UNCHANGED <<cors, patronesDeRutas, finalizado, registradas, declarados,
                   funciones, compuesto, bitacora, varsErrores, solicitudes, mapas>>

----------------------------------------------------------------------------
(* interceptores.go.  A ManejadorFunc is the sequence of the interceptors  *)
(* wrapped around it, outermost first, ending with the terminal handler;   *)
(* nil is the empty sequence.                                              *)

ManejadorNil == <<>>

\* f(manejadorFunc): the handler an InterceptorFunc returns
Aplicar(f, manejadorFunc) == <<f>> \o manejadorFunc

\* mutant of IndiceDeEjecutar: the list is walked from its first element
IndiceSinInvertir(n, i) == i + 1

\* the index "len(lista.funciones)-1-i" of the loop, one-based
IndiceDeEjecutar(n, i) == n - i

\* the loop "for i := range lista.funciones" from i on
RECURSIVE EncadenarDesde(_, _, _)
EncadenarDesde(lista, i, manejadorFunc) ==
    IF i >= Len(lista) THEN manejadorFunc
    ELSE EncadenarDesde(lista, i + 1,
                        Aplicar(lista[IndiceDeEjecutar(Len(lista), i)], manejadorFunc))

\* Ejecutar running its loop without looking at the handler it was given
EncadenarSinMirarNil(lista, manejadorFunc) == EncadenarDesde(lista, 0, manejadorFunc)

\* interceptores.Ejecutar as a function of the list and the handler
Encadenar(lista, manejadorFunc) ==
    IF manejadorFunc # ManejadorNil THEN EncadenarDesde(lista, 0, manejadorFunc)
    ELSE manejadorFunc

\* one call of a ManejadorFunc whose interceptors follow the pattern of the
\* InterceptorFunc comment: record "antes", call the next handler, record "despues"
RECURSIVE Llamar(_)
Llamar(manejadorFunc) ==
    IF Len(manejadorFunc) = 1
    THEN <<[quien |-> manejadorFunc[1], marca |-> "manejador"]>>
    ELSE <<[quien |-> Head(manejadorFunc), marca |-> "antes"]>>
         \o Llamar(Tail(manejadorFunc))
         \o <<[quien |-> Head(manejadorFunc), marca |-> "despues"]>>

SecuenciasHasta(S, n) == UNION {[1..k -> S] : k \in 0..n}

CrearInterceptores(lista) ==
    /\ funciones' = lista
    /\ UNCHANGED <<cors, patronesDeRutas, finalizado, registradas, declarados, ultimo,
                   compuesto, bitacora,
                   varsErrores, varsServicio>>

Agregar(nuevas) ==
    /\ Len(funciones) + Len(nuevas) <= MaxInterceptores
    /\ funciones' = funciones \o nuevas
    /\ UNCHANGED <<cors, patronesDeRutas, finalizado, registradas, declarados, ultimo,
                   compuesto, bitacora,
                   varsErrores, varsServicio>>

Ejecutar(manejadorFunc) ==
    /\ compuesto' = Encadenar(funciones, manejadorFunc)
    /\ bitacora' = <<>>
    /\ ultimo' = [op |-> "Ejecutar", lista |-> funciones, manejadorFunc |-> manejadorFunc]
    /\ UNCHANGED <<cors, patronesDeRutas, finalizado, registradas, declarados, funciones,
                   varsErrores, varsServicio>>

\* the composed handler serves one request
Invocar ==
    /\ compuesto # ManejadorNil
    /\ bitacora' = Llamar(compuesto)
    /\ UNCHANGED <<cors, patronesDeRutas, finalizado, registradas, declarados, ultimo,
                   funciones, compuesto,
                   varsErrores, varsServicio>>

----------------------------------------------------------------------------
(* Inputs.                                                                 *)

Metodos == {GET, POST}
MetodosRecibidos == {GET, POST, OPTIONS}
Manejadores == {"h1", "h2"}
Manejador1 == "h1"

\* route templates registered under Spec
RutaAX == <<"/", "a", "/", "{", "x", "}">>
RutaAY == <<"/", "a", "/", "{", "y", "}">>
RutaAB == <<"/", "a", "/", "b">>
RutaABMayuscula == <<"/", "A", "/", "b", "/">>
RutaRaiz == <<"/">>
RutaSinCierre == <<"/", "{", "x", "y">>
Rutas == {RutaAX, RutaAY, RutaAB, RutaABMayuscula, RutaRaiz, RutaSinCierre}

\* RutaAX in capital letters, with spaces around its parts, without the
\* leading slash and with a trailing one; registered under SpecRegistro
RutaAXMayuscula == <<"A", "/", " ", "{", "X", "}", " ", "/">>
RutasRegistro == Rutas \cup {RutaAXMayuscula}

\* request URIs served under Spec
URIs ==
    { <<"/", "a", "/", "b">>, <<"/", "a", "/", "c">>, <<"/", "a", "/", "b", "?", "q">>,
      <<"/">>, <<"/", "c">>, <<>> }

\* what a handler may return: nil or an error chain
ErrNulo == <<>>
ErroresDeManejador ==
    { ErrNulo, errorNuevo(404), ErrorNuevoRastro(errorNuevo(403)), ErrorNuevoRastro(ErrorAjeno) }

\* the parts route templates are made of under SpecRuta
Segmentos ==
    { <<>>, <<"a">>, <<"A">>, <<" ", "a">>,
      <<"{", "x", "}">>, <<"{", "y", "}">>, <<" ", "{", "X", "}", " ">>,
      <<"{", "}">>, <<"{", "x">>, <<"{", "x", "y">>,
      <<"a", "{", "x", "}">>, <<"{", "x", "}", "a">> }

\* every template of at most n parts, with and without a leading and a
\* trailing slash, and the empty template
PlantillasHasta(n) ==
    {<<>>} \cup
    { pre \o Join(partes, <<"/">>) \o post :
        pre \in {<<>>, <<"/">>}, post \in {<<>>, <<"/">>},
        partes \in SecuenciasHasta(Segmentos, n) }

\* the values put in place of a template's placeholders
Valores == { <<"b">>, <<"B">>, ComodinV, <<>> }

\* a part of a template that the compiler takes for a variable
EsComodin(parte) == Index(ToLower(Trim(parte)), "{") # -1

\* the parts of template t, its k-th placeholder replaced by valores[k]
RECURSIVE SustituirPartes(_, _)
SustituirPartes(partes, valores) ==
    IF partes = <<>> THEN <<>>
    ELSE IF EsComodin(Head(partes))
    THEN <<Head(valores)>> \o SustituirPartes(Tail(partes), Tail(valores))
    ELSE <<Head(partes)>> \o SustituirPartes(Tail(partes), valores)

NumeroDeComodines(t) ==
    LET partes == Split(t, "/") IN Cardinality({i \in 1..Len(partes) : EsComodin(partes[i])})

\* the request path obtained from template t by the substitution
Sustituir(t, valores) == Join(SustituirPartes(Split(t, "/"), valores), <<"/">>)

\* headers declared on endpoints under SpecCORS
CamposRequeridosDados ==
    { << <<"X-Foo">> >>, << <<"x-foo">>, <<"X-Bar">> >>, << <<" ", "x-foo">> >> }
CamposExpuestosDados == { << <<"X-Tot">> >>, << <<"x-tot", " ">>, <<"X-Tot">> >> }
RutasCORS == { <<"/", "a">>, <<"/", "A", "/">> }
URIsCORS == { <<"/", "a">>, <<"/", "c">> }
OrigenesDados == { << <<"o1">>, <<"o2">> >> }
DuracionesDadas == {60}

----------------------------------------------------------------------------
(* Specifications.                                                         *)

Init ==
    /\ cors = CorsInicial
    /\ patronesDeRutas = Vacio
    /\ finalizado = FALSE
    /\ registradas = {}
    /\ declarados = [requeridos |-> {}, expuestos |-> {}]
    /\ ultimo = UltimoInicial
    /\ funciones = <<>>
    /\ compuesto = ManejadorNil
    /\ bitacora = <<>>
    /\ monton = <<>>
    /\ linaje = <<>>
    /\ iniciado = FALSE
    /\ solicitudes = [s \in 1..MaxSolicitudes |-> SolicitudLibre]
    /\ mapas = [s \in 1..MaxSolicitudes |-> <<>>]

\* Spec: registration and dispatch
Registrar == \E m \in Metodos, r \in Rutas : nuevoEndpoint(m, r, Manejador1)

Servir ==
    \E m \in MetodosRecibidos, u \in URIs :
        \E err \in (IF m = OPTIONS THEN {ErrNulo} ELSE ErroresDeManejador) :
            ServeHTTP(m, u, err)

Next == Registrar \/ CORSActivar \/ Servir

Spec == Init /\ [][Next]_vars

\* SpecCORS: one pattern, its CORS aggregates, the global policy and preflight
RegistrarCORS == \E m \in Metodos, r \in RutasCORS : nuevoEndpoint(m, r, Manejador1)

Requerir ==
    \E pr \in DOMAIN patronesDeRutas, m \in Metodos, campos \in CamposRequeridosDados :
        CORSCamposRequeridos(pr, m, campos)

Exponer ==
    \E pr \in DOMAIN patronesDeRutas, m \in Metodos, campos \in CamposExpuestosDados :
        CORSCamposExpuestos(pr, m, campos)

Origenes == \E o \in OrigenesDados : CORSOrigenes(o)

Credenciales == \E b \in BOOLEAN : COSCredenciales(b)

Duracion == \E d \in DuracionesDadas : CORSDuracion(d)

ServirCORS == \E m \in {GET, OPTIONS}, u \in URIsCORS : ServeHTTP(m, u, ErrNulo)

NextCORS ==
    \/ RegistrarCORS \/ Requerir \/ Exponer
    \/ CORSActivar \/ Origenes \/ Credenciales \/ Duracion
    \/ ServirCORS

SpecCORS == Init /\ [][NextCORS]_vars

\* SpecRegistro: registration alone, with two handlers to tell apart
RegistrarManejador ==
    \E m \in Metodos, r \in RutasRegistro, f \in Manejadores : nuevoEndpoint(m, r, f)

NextRegistro == RegistrarManejador

SpecRegistro == Init /\ [][NextRegistro]_vars

\* SpecRuta: one template, registered as the only route, then requests for
\* the paths obtained from it by substitution
RegistrarUnica ==
    /\ patronesDeRutas = Vacio
    /\ \E r \in PlantillasHasta(MaxPartes) : nuevoEndpoint(GET, r, Manejador1)

ServirSustituida ==
    \E reg \in registradas :
        \E valores \in [1..NumeroDeComodines(reg[2]) -> Valores] :
            ServeHTTP(GET, Sustituir(reg[2], valores), ErrNulo)

NextRuta == RegistrarUnica \/ ServirSustituida

SpecRuta == Init /\ [][NextRuta]_vars

\* SpecPlantillas: templates of literal and variable parts are registered one
\* after the other
SegmentosDePlantilla == { <<"a">>, <<"{", "x", "}">>, <<"{", "y", "}">> }

PlantillasDe(S, n) == { <<"/">> \o Join(partes, <<"/">>) : partes \in SecuenciasHasta(S, n) }

RegistrarPlantilla ==
    \E r \in PlantillasDe(SegmentosDePlantilla, MaxPartes) : nuevoEndpoint(GET, r, Manejador1)

NextPlantillas == RegistrarPlantilla

SpecPlantillas == Init /\ [][NextPlantillas]_vars

\* SpecInterceptores: building a list, composing it and calling the result
Interceptores == {"A", "B"}
Terminal == <<"H">>

Crear == \E lista \in SecuenciasHasta(Interceptores, 2) : CrearInterceptores(lista)

AgregarMas == \E nuevas \in SecuenciasHasta(Interceptores, 2) \ {<<>>} : Agregar(nuevas)

Componer == \E m \in {ManejadorNil, Terminal} : Ejecutar(m)

NextInterceptores == Crear \/ AgregarMas \/ Componer \/ Invocar

SpecInterceptores == Init /\ [][NextInterceptores]_vars

\* SpecErrores: error chains are built and inspected
EstadosHTTP == {404, 500}

\* the places of the program that create errors
Sitios ==
    { [archivo |-> <<"/", "app", "/", "main", ".", "g", "o">>,
       funcion |-> <<"main", ".", "f">>, linea |-> 10],
      [archivo |-> <<"/", "app", "/", "svc", "/", "g", ".", "g", "o">>,
       funcion |-> <<"svc", ".", "g">>, linea |-> 20] }

CrearTipado == \E e \in EstadosHTTP, s \in Sitios : ErrorNuevoTipado(e, s)

Envolver == \E err \in Punteros, s \in Sitios : AgregarRastro(err, s)

EsTipo == \E err \in Punteros, e \in EstadosHTTP : BuscarTipo(err, e)

EsAPIREST == \E err \in Punteros : BuscarAPIREST(err)

Rastros == \E err \in Punteros : ObtenerRastros(err)

NextErrores == CrearTipado \/ Envolver \/ EsTipo \/ EsAPIREST \/ Rastros

SpecErrores == Init /\ [][NextErrores]_vars

\* SpecMensajes: error chains are built and their nodes are annotated
MensajesDados == { <<"m1">>, <<"m2">>, <<>> }
ObservacionesDadas == { <<"o1">>, <<>> }

Anotar == \E err \in 1..Len(monton), m \in MensajesDados : AsignarMensajeTecnico(err, m)

Observar ==
    \E err \in 1..Len(monton), o \in ObservacionesDadas :
        AsignarObservacionAlRastro(err, o)

\* the place of the program whose errors are annotated
SitioAnotado == CHOOSE s \in Sitios : s.linea = 10

CrearAnotable ==
    /\ Len(monton) < MaxAnotados
    /\ ErrorNuevoTipado(404, SitioAnotado)

EnvolverAnotable ==
    /\ Len(monton) < MaxAnotados
    /\ \E err \in Punteros : AgregarRastro(err, SitioAnotado)

NextMensajes == CrearAnotable \/ EnvolverAnotable \/ Anotar \/ Observar

SpecMensajes == Init /\ [][NextMensajes]_vars

\* SpecUUID: one error is created and given identifiers
BytesDados == {0, 15, 16, 64, 79, 128, 171, 191, 255}

\* the bytes of the random source: the bytes 6 and 8 are drawn from
\* BytesDados, the others follow one of four fillings
Rellenos ==
    { [i \in 1..16 |-> 0], [i \in 1..16 |-> 255], [i \in 1..16 |-> (i - 1) * 17],
      [i \in 1..16 |-> (i * 37 + 11) % 256] }

FuentesDeBytes ==
    { [r EXCEPT ![7] = x, ![9] = y] : r \in Rellenos, x \in BytesDados, y \in BytesDados }

CrearIdentificable == monton = <<>> /\ CrearTipado

Identificar == \E err \in 1..Len(monton), a \in FuentesDeBytes : AsignarUUID(err, a)

NextUUID == CrearIdentificable \/ Identificar

SpecUUID == Init /\ [][NextUUID]_vars

\* SpecServicio: the routes are registered, the server is started, and then
\* requests are served one beside the other
RutasServicio == { <<"/", "a", "/", "{", "x", "}">>, <<"/", "b">> }
URIsServicio == { <<"/", "a", "/", "1">>, <<"/", "a", "/", "2">>, <<"/", "b">>, <<"/", "c">> }
MetodosServicio == {GET, OPTIONS}
\* the field a handler assigns in each of its two maps
CampoEscrito(clave) == IF clave = "cors" THEN AccessControlAllowOrigin ELSE <<"x">>
ValoresEscritos == { <<"w">> }

RegistrarAntes == ~iniciado /\ \E r \in RutasServicio : nuevoEndpoint(GET, r, Manejador1)

ActivarAntes == ~iniciado /\ ~cors.esActivo /\ CORSActivar

Iniciar == IniciarPorHTTP

\* a serving step that forgets the routes
LlegarBorrando ==
    /\ iniciado
    /\ ~finalizado
    /\ \E m \in MetodosServicio, u \in URIsServicio :
           \E r \in Respuestas(cors, patronesDeRutas, m, u) : ultimo' = r
    /\ patronesDeRutas' = Vacio
    /\ UNCHANGED <<cors, finalizado, registradas, declarados, funciones, compuesto,
                   bitacora, varsErrores, varsServicio>>

Llegar ==
    /\ iniciado
    /\ \E s \in 1..MaxSolicitudes, m \in MetodosServicio, u \in URIsServicio :
           Atender(s, m, u)

Directa == iniciado /\ \E s \in 1..MaxSolicitudes : SolicitudDirecta(s)

LeerVariables == \E s \in 1..MaxSolicitudes : ObtenerVariablesDeRuta(s)

LeerCORS == \E s \in 1..MaxSolicitudes : ObtenerCORS(s)

Escribir ==
    \E s \in 1..MaxSolicitudes, clave \in {"cors", "variables"}, valor \in ValoresEscritos :
        EscribirEnMapa(s, clave, CampoEscrito(clave), valor)

Volver == \E s \in 1..MaxSolicitudes : Terminar(s)

NextServicio ==
    \/ RegistrarAntes \/ ActivarAntes \/ Iniciar
    \/ Llegar \/ Directa \/ LeerVariables \/ LeerCORS \/ Escribir \/ Volver

SpecServicio == Init /\ [][NextServicio]_vars

\* SpecAbierto: as SpecServicio, and the registration API is called after the
\* server was started too, which no code of the router prevents
RegistrarTarde == iniciado /\ \E r \in RutasServicio : nuevoEndpoint(GET, r, Manejador1)

RequerirTarde ==
    /\ iniciado
    /\ \E pr \in DOMAIN patronesDeRutas : CORSCamposRequeridos(pr, GET, << <<"X-Foo">> >>)

ActivarTarde == iniciado /\ ~cors.esActivo /\ CORSActivar

NextAbierto ==
    \/ RegistrarAntes \/ ActivarAntes \/ Iniciar \/ Llegar \/ Volver
    \/ RegistrarTarde \/ RequerirTarde \/ ActivarTarde

SpecAbierto == Init /\ [][NextAbierto]_vars

----------------------------------------------------------------------------
(* Claims.                                                                 *)

\* the names of a binding list, in order
Nombres(variables) == [i \in 1..Len(variables) |-> variables[i].nombre]

\* a template whose literal parts are written as the compiler stores them
\* (lower case, no surrounding spaces) and whose placeholders are {name}
EsPlantillaCanonica(t) ==
    \A i \in 1..Len(Split(t, "/")) :
        LET p == Split(t, "/")[i]
        IN  /\ ToLower(Trim(p)) = p
            /\ EsComodin(p) =>
                   /\ Len(p) >= 3 /\ p[1] = "{" /\ p[Len(p)] = "}"
                   /\ \A j \in 2..(Len(p) - 1) : p[j] \notin {"{", "}"}

\* C1 (as claimed): when a template that compiles is the only route registered,
\* a request for the path obtained by putting non-empty values in place of its
\* placeholders finds that route's detail, and the variable map holds for each
\* binding the value put in its place, and nothing else.
C1_IdaYVuelta ==
    \A reg \in registradas :
        (registradas = {reg} /\ ultimo.op = "ServeHTTP" /\ EsPlantillaCanonica(reg[2])) =>
            LET c == rutaAPatronDeRuta(reg[2])
            IN  \A valores \in [1..NumeroDeComodines(reg[2]) -> Valores \ {<<>>}] :
                    ultimo.uri = Sustituir(reg[2], valores) =>
                        /\ ultimo.encontrado
                        /\ ultimo.detalle = c.pr
                        /\ DOMAIN ultimo.variables = Rango(Nombres(c.variables))
                        /\ \A i \in 1..Len(c.variables) :
                               ultimo.variables[c.variables[i].nombre] = valores[i]

\* the parts of a pattern that are not the placeholder token
NumeroDeLiterales(pr) ==
    Cardinality({i \in 1..Len(PartesPatronDeRuta(pr)) : PartesPatronDeRuta(pr)[i] # ComodinV})

\* C2 (as claimed): of the registered patterns that match a request path, the
\* matcher returns one with the most literal parts, whatever the order in
\* which the route table is visited.
C2_PrecedenciaDeLiterales ==
    (ultimo.op = "ServeHTTP" /\ ultimo.encontrado) =>
        \A pr \in PatronesCoincidentes(patronesDeRutas, QuitarConsulta(ultimo.uri)) :
            NumeroDeLiterales(ultimo.detalle) >= NumeroDeLiterales(pr)

\* the first part of template t, normalised, that has a "{" and is the empty
\* placeholder or lacks the closing brace (<<>> when there is none)
PrimeraParteMala(t) ==
    LET partes == [i \in 1..Len(PartesRuta(t)) |-> ToLower(Trim(PartesRuta(t)[i]))]
        malas == {i \in 1..Len(partes) :
                     "{" \in Rango(partes[i])
                     /\ (partes[i] = <<"{", "}">> \/ "}" \notin Rango(partes[i]))}
    IN  IF malas = {} THEN <<>>
        ELSE partes[CHOOSE i \in malas : \A j \in malas : i <= j]

\* C5 (as claimed): the empty template fails with the empty-route error; a
\* template whose first faulty part is "{}" fails with the missing-name error;
\* one whose first faulty part has "{" and no "}" fails with the
\* unterminated-variable error; a failure returns no pattern and no bindings.
C5_ClasificacionDeErrores ==
    ultimo.op = "nuevoEndpoint" =>
        /\ ultimo.ruta = <<>> => ultimo.err = ErrRutaVacia
        /\ (ultimo.ruta # <<>> /\ PrimeraParteMala(ultimo.ruta) = <<"{", "}">>) =>
               ultimo.err = ErrSinNombre
        /\ (ultimo.ruta # <<>> /\ PrimeraParteMala(ultimo.ruta) # <<>>
               /\ "}" \notin Rango(PrimeraParteMala(ultimo.ruta))) =>
               ultimo.err = ErrSinLlave
        /\ ultimo.err # ErrNil => (ultimo.pr = <<>> /\ ultimo.variables = <<>>)

\* C9 (as claimed): a request whose path matches a pattern that has no
\* endpoint for its method (not OPTIONS) is answered 405 and calls no handler.
C9_MetodoNoPermitido ==
    (/\ ultimo.op = "ServeHTTP" /\ ultimo.encontrado /\ ultimo.metodo # OPTIONS
     /\ ultimo.metodo \notin DOMAIN patronesDeRutas[ultimo.detalle].endpoints) =>
        (ultimo.estado = 405 /\ ultimo.manejador = SinManejador)

\* the status the claim expects for a handler's error: that of the newest
\* node with a kind, 500 when the chain holds none
EstadoEsperado(err) ==
    IF ErrorEsAPIREST(err).ok THEN ErrorEsAPIREST(err).nodo.estadoHTTP ELSE 500

\* C10 (as claimed): when the handler called returns an error, the dispatcher
\* writes the status of the kind found in its chain, or 500.
C10_EstadoDelError ==
    (ultimo.op = "ServeHTTP" /\ ultimo.manejador # SinManejador /\ ultimo.retorno # ErrNulo) =>
        ultimo.estado = EstadoEsperado(ultimo.retorno)

\* a registration step, told by ultimo', that compiled its template
RegistroCompilado ==
    /\ ultimo'.op = "nuevoEndpoint"
    /\ ultimo'.err = ErrNil

\* C3: a registration whose canonical pattern is already in the route table
\* and whose variable names differ at some position from the recorded ones
\* ends the process; it adds no endpoint and the recorded names stay.
C3_NombresDistintosFinalizan ==
    [][ (/\ RegistroCompilado
         /\ ultimo'.pr \in DOMAIN patronesDeRutas
         /\ \E i \in 1..Len(ultimo'.variables) :
                /\ i <= Len(patronesDeRutas[ultimo'.pr].variables)
                /\ patronesDeRutas[ultimo'.pr].variables[i].nombre
                       # ultimo'.variables[i].nombre)
        => (finalizado' /\ patronesDeRutas' = patronesDeRutas) ]_vars

\* C3 witness: the process was ended by a registration for a recorded pattern
\* under other variable names
C3_Testigo ==
    /\ finalizado
    /\ ultimo.op = "nuevoEndpoint" /\ ultimo.err = ErrNil
    /\ ultimo.pr \in DOMAIN patronesDeRutas
    /\ ultimo.metodo \notin DOMAIN patronesDeRutas[ultimo.pr].endpoints
    /\ Len(ultimo.variables) = 1
    /\ Nombres(patronesDeRutas[ultimo.pr].variables) # Nombres(ultimo.variables)

\* C4: a registration for a method the pattern already has an endpoint for
\* ends the process and leaves the route table as it was; and no step ever
\* removes an endpoint or changes its handler.
C4_MetodoRepetidoFinaliza ==
    [][ /\ \A pr \in DOMAIN patronesDeRutas :
               \A m \in DOMAIN patronesDeRutas[pr].endpoints :
                   /\ pr \in DOMAIN patronesDeRutas'
                   /\ m \in DOMAIN patronesDeRutas'[pr].endpoints
                   /\ patronesDeRutas'[pr].endpoints[m] = patronesDeRutas[pr].endpoints[m]
        /\ (/\ RegistroCompilado
            /\ ultimo'.pr \in DOMAIN patronesDeRutas
            /\ ultimo'.metodo \in DOMAIN patronesDeRutas[ultimo'.pr].endpoints)
           => (finalizado' /\ patronesDeRutas' = patronesDeRutas) ]_vars

\* C4 witness: the process was ended by a second registration of a method,
\* with the same variable names and another handler, and the first handler stays
C4_Testigo ==
    /\ finalizado
    /\ ultimo.op = "nuevoEndpoint" /\ ultimo.err = ErrNil
    /\ ultimo.pr \in DOMAIN patronesDeRutas
    /\ Nombres(patronesDeRutas[ultimo.pr].variables) = Nombres(ultimo.variables)
    /\ ultimo.metodo \in DOMAIN patronesDeRutas[ultimo.pr].endpoints
    /\ patronesDeRutas[ultimo.pr].endpoints[ultimo.metodo] # ultimo.funcion

\* the markers of one call of f1(f2(...fn(h))): f1 ... fn enter, h, fn ... f1 exit
MarcasEsperadas(lista, h) ==
    [i \in 1..(2 * Len(lista) + 1) |->
        IF i <= Len(lista) THEN [quien |-> lista[i], marca |-> "antes"]
        ELSE IF i = Len(lista) + 1 THEN [quien |-> h[1], marca |-> "manejador"]
        ELSE [quien |-> lista[2 * Len(lista) + 2 - i], marca |-> "despues"]]

\* C6: for the interceptors [f1, ..., fn] the list holds and a handler h that
\* is not nil, Ejecutar(h) returns f1(f2(...fn(h))), and one call of it records
\* f1-enter, ..., fn-enter, h, fn-exit, ..., f1-exit, each once.
C6_OrdenDeCebolla ==
    (ultimo.op = "Ejecutar" /\ ultimo.manejadorFunc # ManejadorNil) =>
        /\ compuesto = ultimo.lista \o ultimo.manejadorFunc
        /\ bitacora # <<>> => bitacora = MarcasEsperadas(ultimo.lista, ultimo.manejadorFunc)

\* C6 witness: a list of three interceptors (so built by CrearInterceptores
\* and Agregar), not all the same, was composed and the result called
C6_Testigo ==
    /\ ultimo.op = "Ejecutar" /\ ultimo.manejadorFunc # ManejadorNil
    /\ Len(ultimo.lista) = 3 /\ ultimo.lista[1] # ultimo.lista[3]
    /\ Len(bitacora) = 7

\* entries of lista equal to campo once both are normalised by Norma(_)
Iguales(lista, campo, Norma(_)) == {i \in 1..Len(lista) : Norma(lista[i]) = Norma(campo)}

\* the allowed-methods list holds the registered methods, each once
MetodosAgregados(detalle) ==
    /\ Rango(detalle.metodosPermitidos) = DOMAIN detalle.endpoints
    /\ Len(detalle.metodosPermitidos) = Cardinality(DOMAIN detalle.endpoints)

\* lista holds one entry for each name declared on pr, equal to it under
\* Norma(_), and every entry of lista is a name declared on pr
CamposAgregados(pr, lista, dichos, Norma(_)) ==
    /\ \A d \in dichos : d[1] = pr => Cardinality(Iguales(lista, d[2], Norma)) = 1
    /\ \A i \in 1..Len(lista) : <<pr, lista[i]>> \in dichos

SinEspacios(campo) == Trim(ToLower(campo))

\* C7 (as claimed): each pattern's required list and exposed list hold, for
\* each header name declared on it, exactly one entry equal to it ignoring
\* case, and nothing else; its allowed methods are the registered ones, each once.
C7_AgregadoSinMayusculas ==
    \A pr \in DOMAIN patronesDeRutas :
        /\ CamposAgregados(pr, patronesDeRutas[pr].camposRequeridos, declarados.requeridos, ToLower)
        /\ CamposAgregados(pr, patronesDeRutas[pr].camposExpuestos, declarados.expuestos, ToLower)
        /\ MetodosAgregados(patronesDeRutas[pr])

\* C7 (amended): the same, with "equal ignoring case and the spaces around it"
C7_AgregadoSinMayusculasNiEspacios ==
    \A pr \in DOMAIN patronesDeRutas :
        /\ CamposAgregados(pr, patronesDeRutas[pr].camposRequeridos, declarados.requeridos, SinEspacios)
        /\ CamposAgregados(pr, patronesDeRutas[pr].camposExpuestos, declarados.expuestos, SinEspacios)
        /\ MetodosAgregados(patronesDeRutas[pr])

\* C7 witness: X-Foo, then x-foo and X-Bar, were declared on a pattern with
\* GET and POST, a name was declared with a space before it, and the lists
\* hold one entry for each
C7_Testigo ==
    \E pr \in DOMAIN patronesDeRutas :
        /\ patronesDeRutas[pr].camposRequeridos = << <<"X-Foo">>, <<"X-Bar">> >>
        /\ {<<pr, <<"x-foo">> >>, <<pr, <<" ", "x-foo">> >>} \subseteq declarados.requeridos
        /\ patronesDeRutas[pr].camposExpuestos = << <<"x-tot", " ">> >>
        /\ <<pr, <<"X-Tot">> >> \in declarados.expuestos
        /\ patronesDeRutas[pr].metodosPermitidos = <<GET, POST>>

\* C8: an OPTIONS request whose path matches a pattern is answered, with CORS
\* on, 204 and the six fields: origins, credentials and max-age of the global
\* policy, methods, required and exposed headers of the pattern, the lists
\* joined by ", "; with CORS off, 404.  No handler is called.
C8_Preflight ==
    (ultimo.op = "ServeHTTP" /\ ultimo.metodo = OPTIONS /\ ultimo.encontrado) =>
        LET detalle == patronesDeRutas[ultimo.detalle]
        IN  /\ ultimo.manejador = SinManejador
            /\ ~cors.esActivo => ultimo.estado = 404
            /\ cors.esActivo =>
                   /\ ultimo.estado = 204
                   /\ DOMAIN ultimo.cabeceras =
                          {AccessControlAllowOrigin, AccessControlAllowCredentials,
                           AccessControlMaxAge, AccessControlAllowMethods,
                           AccessControlAllowHeaders, AccessControlExposeHeaders}
                   /\ ultimo.cabeceras[AccessControlAllowOrigin] = Join(cors.origenes, ComaEspacio)
                   /\ ultimo.cabeceras[AccessControlAllowCredentials] = FormatBool(cors.credenciales)
                   /\ ultimo.cabeceras[AccessControlMaxAge] = Itoa(cors.duracion)
                   /\ ultimo.cabeceras[AccessControlAllowMethods]
                          = Join(detalle.metodosPermitidos, ComaEspacio)
                   /\ ultimo.cabeceras[AccessControlAllowHeaders]
                          = Join(detalle.camposRequeridos, ComaEspacio)
                   /\ ultimo.cabeceras[AccessControlExposeHeaders]
                          = Join(detalle.camposExpuestos, ComaEspacio)

\* C8 witness: a preflight answered 204 with two origins, credentials, a
\* max-age of 60, two methods, two required headers and one exposed header
C8_Testigo ==
    /\ ultimo.op = "ServeHTTP" /\ ultimo.metodo = OPTIONS /\ ultimo.estado = 204
    /\ ultimo.cabeceras[AccessControlAllowOrigin] = <<"o1", ",", " ", "o2">>
    /\ ultimo.cabeceras[AccessControlAllowCredentials] = <<"t", "r", "u", "e">>
    /\ ultimo.cabeceras[AccessControlMaxAge] = <<"6", "0">>
    /\ ultimo.cabeceras[AccessControlAllowMethods] = <<"POST", ",", " ", "GET">>
    /\ ultimo.cabeceras[AccessControlAllowHeaders] = <<"x-foo", ",", " ", "X-Bar">>
    /\ ultimo.cabeceras[AccessControlExposeHeaders] = <<"X-Tot">>

\* C8 witness: a preflight for a registered pattern answered 404, CORS being off
C8_TestigoInactivo ==
    /\ ultimo.op = "ServeHTTP" /\ ultimo.metodo = OPTIONS /\ ultimo.encontrado
    /\ ~cors.esActivo /\ ultimo.estado = 404

\* the least element of a non-empty set of numbers
Minimo(S) == CHOOSE x \in S : \A y \in S : x <= y

\* the positions, in the history of a chain, of the nodes of one kind
PosicionesDelTipo(l, estadoHTTP) ==
    {i \in 1..Len(l) : monton[l[i]].estadoHTTP = estadoHTTP}

\* the positions of the nodes that carry a kind
PosicionesConTipo(l) == {i \in 1..Len(l) : monton[l[i]].estadoHTTP # 0}

\* C11: the finder of a kind K answers the newest node of the chain whose
\* kind is K, that very node, with true, and (nil, false) when the chain has
\* no node of kind K; so a node of another kind is never answered
C11_BuscadorDeTipo ==
    ultimo.op = "errorBuscarTipo" =>
        LET l == LinajeDe(ultimo.err)
            delTipo == PosicionesDelTipo(l, ultimo.estadoHTTP)
        IN  IF delTipo = {}
            THEN ~ultimo.resultado.ok /\ ultimo.resultado.nodo = NodoNil
            ELSE /\ ultimo.resultado.ok
                 /\ ultimo.resultado.nodo.puntero = l[Minimo(delTipo)]
                 /\ ultimo.resultado.nodo.estadoHTTP = ultimo.estadoHTTP

\* a 404 node under two ErrorNuevoRastro layers was looked for and answered
C11_Testigo ==
    /\ ultimo.op = "errorBuscarTipo"
    /\ ultimo.estadoHTTP = 404
    /\ Len(LinajeDe(ultimo.err)) = 3
    /\ PosicionesDelTipo(LinajeDe(ultimo.err), 404) = {3}
    /\ ultimo.resultado.ok
    /\ ultimo.resultado.nodo.puntero = LinajeDe(ultimo.err)[3]

\* a chain made of a typed error and ErrorNuevoRastro layers over it
EsTipadoEnvuelto(l) ==
    /\ l # <<>>
    /\ monton[l[Len(l)]].estadoHTTP # 0
    /\ monton[l[Len(l)]].errAnterior = PunteroNil
    /\ \A i \in 1..(Len(l) - 1) : monton[l[i]].estadoHTTP = 0

\* C12: for a typed error under n ErrorNuevoRastro layers the collector
\* answers n+1 traces, one per node, from the newest layer to the original
\* error; and the traces of a wrapped chain follow, unchanged and in order,
\* the trace of the layer put over it
C12_RastrosEnOrden ==
    /\ ultimo.op = "ErrorObtenerRastros" /\ EsTipadoEnvuelto(LinajeDe(ultimo.err)) =>
           /\ Len(ultimo.rastros) = Len(LinajeDe(ultimo.err))
           /\ \A i \in 1..Len(ultimo.rastros) :
                  ultimo.rastros[i] = monton[LinajeDe(ultimo.err)[i]].rastro
    /\ \A p \in 1..Len(monton) :
           monton[p].estadoHTTP = 0 /\ EsTipadoEnvuelto(LinajeDe(monton[p].errAnterior)) =>
               ErrorObtenerRastros(Cadena(monton, p))
                   = <<monton[p].rastro>>
                     \o ErrorObtenerRastros(Cadena(monton, monton[p].errAnterior))

\* the traces of a typed error under two layers were collected, the newest
\* and the oldest made at different places
C12_Testigo ==
    /\ ultimo.op = "ErrorObtenerRastros"
    /\ EsTipadoEnvuelto(LinajeDe(ultimo.err))
    /\ Len(ultimo.rastros) = 3
    /\ ultimo.rastros[1] # ultimo.rastros[3]

\* C20: ErrorEsAPIREST answers the newest node whose kind is set, passing
\* over the nodes ErrorNuevoRastro made, and (nil, false) when no node has a
\* kind; the nodes passed over each give one trace to ErrorObtenerRastros
C20_SaltaEnvoltorios ==
    /\ ultimo.op = "ErrorEsAPIREST" =>
           LET l == LinajeDe(ultimo.err)
               conTipo == PosicionesConTipo(l)
           IN  IF conTipo = {}
               THEN ~ultimo.resultado.ok /\ ultimo.resultado.nodo = NodoNil
               ELSE /\ ultimo.resultado.ok
                    /\ ultimo.resultado.nodo.puntero = l[Minimo(conTipo)]
    /\ ultimo.op = "ErrorObtenerRastros" =>
           LET l == LinajeDe(ultimo.err)
           IN  /\ Len(ultimo.rastros) = Len(l)
               /\ \A i \in 1..Len(l) :
                      monton[l[i]].estadoHTTP = 0 =>
                          ultimo.rastros[i] = monton[l[i]].rastro

\* ErrorEsAPIREST passed over two layers and answered the 500 node under them
C20_Testigo ==
    /\ ultimo.op = "ErrorEsAPIREST"
    /\ Len(LinajeDe(ultimo.err)) = 3
    /\ PosicionesConTipo(LinajeDe(ultimo.err)) = {3}
    /\ ultimo.resultado.ok
    /\ ultimo.resultado.nodo.puntero = LinajeDe(ultimo.err)[3]
    /\ ultimo.resultado.nodo.estadoHTTP = 500

\* C13 (as claimed): a request path that is found has a non-empty part at
\* every placeholder of the pattern found, and no variable of the map made
\* for it holds the empty string
C13_ComodinNoVacio ==
    (ultimo.op = "ServeHTTP" /\ ultimo.encontrado) =>
        LET partes == PartesRutaRecibida(QuitarConsulta(ultimo.uri))
            patron == PartesPatronDeRuta(ultimo.detalle)
        IN  /\ \A i \in 1..Len(patron) : patron[i] = ComodinV => partes[i] # <<>>
            /\ \A n \in DOMAIN ultimo.variables : ultimo.variables[n] # <<>>

\* C14: a step of ServeHTTP, for any method and any path, found or not,
\* leaves the route table (patterns, endpoints, variable bindings, CORS
\* aggregates) and the global CORS configuration as they were
C14_ServirNoEscribe ==
    [][(ultimo' # ultimo /\ ultimo'.op = "ServeHTTP") =>
           (patronesDeRutas' = patronesDeRutas /\ cors' = cors)]_vars

\* a request was dispatched to its handler over a table with routes
C14_Testigo ==
    /\ ultimo.op = "ServeHTTP"
    /\ ultimo.encontrado
    /\ ultimo.manejador # SinManejador
    /\ patronesDeRutas # Vacio
    /\ \E s \in 1..MaxSolicitudes : solicitudes[s].fase = "manejador"

\* C15 (as claimed): once the server was started no step changes the route
\* table, a pattern's CORS aggregates or the global CORS configuration
C15_RegistroAntesDeServir ==
    [][iniciado => (patronesDeRutas' = patronesDeRutas /\ cors' = cors)]_vars

\* the variables of the path of request s, from the bindings of its pattern
VariablesPropias(s) ==
    LET enlaces == patronesDeRutas[solicitudes[s].detalle].variables
        partes == PartesRutaRecibida(QuitarConsulta(solicitudes[s].uri))
    IN  [n \in {enlaces[i].nombre : i \in 1..Len(enlaces)} |->
            LET i == CHOOSE j \in 1..Len(enlaces) : enlaces[j].nombre = n
            IN  partes[enlaces[i].posicion + 1]]

\* map m holds what propio holds, but for the fields request s wrote itself
SoloLoPropio(s, clave, m, propio) ==
    /\ DOMAIN propio \subseteq DOMAIN m
    /\ \A campo \in DOMAIN m :
           IF <<clave, campo>> \in solicitudes[s].escritas
           THEN m[campo] \in ValoresEscritos
           ELSE campo \in DOMAIN propio /\ m[campo] = propio[campo]

\* C16: requests served one beside the other hold no map in common, their
\* variable map and their CORS map are two maps, and the map of a request
\* holds the variables of its own path and what its own handler wrote, never
\* what another request's handler wrote
C16_AislamientoPorSolicitud ==
    \A s \in 1..MaxSolicitudes :
        solicitudes[s].fase = "manejador" =>
            /\ \A t \in 1..MaxSolicitudes \ {s} : MapasDe(s) \cap MapasDe(t) = {}
            /\ solicitudes[s].ctx.variables # SinValor =>
                   /\ solicitudes[s].ctx.variables # solicitudes[s].ctx.cors
                   /\ SoloLoPropio(s, "variables", Contenido(mapas, solicitudes[s].ctx.variables),
                                   VariablesPropias(s))
            /\ solicitudes[s].ctx.cors # SinValor =>
                   SoloLoPropio(s, "cors", Contenido(mapas, solicitudes[s].ctx.cors),
                                CabecerasDeContexto(cors, patronesDeRutas[solicitudes[s].detalle]))

\* two requests for different paths are with their handlers, each with a
\* variable map, and one handler has written into its own
C16_Testigo ==
    /\ \A s \in 1..MaxSolicitudes :
           solicitudes[s].fase = "manejador" /\ solicitudes[s].ctx.variables # SinValor
    /\ solicitudes[1].uri # solicitudes[2].uri
    /\ <<"variables", <<"x">>>> \in solicitudes[1].escritas
    /\ solicitudes[2].escritas = {}

\* C17: a lookup answers a map of its own, empty but for what the handler
\* wrote into it since, when the context holds none, and the very map the
\* dispatcher attached otherwise; the dispatcher attaches a variable map when
\* the route has variables and a CORS map when CORS is active, and a request
\* that did not come through it has neither
C17_ConsultasDeSolicitud ==
    \A s \in 1..MaxSolicitudes :
        solicitudes[s].fase = "manejador" =>
            /\ \A clave \in {"cors", "variables"} :
                   solicitudes[s].obtenido[clave] # SinValor =>
                       IF solicitudes[s].ctx[clave] = SinValor
                       THEN /\ \A campo \in DOMAIN Contenido(mapas, solicitudes[s].obtenido[clave]) :
                                   <<clave, campo>> \in solicitudes[s].escritas
                            /\ \A t \in 1..MaxSolicitudes :
                                   solicitudes[s].obtenido[clave] \notin
                                       {solicitudes[t].ctx.cors, solicitudes[t].ctx.variables}
                       ELSE solicitudes[s].obtenido[clave] = solicitudes[s].ctx[clave]
            /\ IF solicitudes[s].detalle = DetalleNil
               THEN solicitudes[s].ctx = CtxVacio
               ELSE /\ solicitudes[s].ctx.cors # SinValor <=> cors.esActivo
                    /\ solicitudes[s].ctx.variables # SinValor <=>
                           patronesDeRutas[solicitudes[s].detalle].variables # <<>>

\* one handler looked up its variables and was given the map of its context,
\* with the variable of its path; another, of a route with no variables, was
\* given an empty map
C17_Testigo ==
    \E s, t \in 1..MaxSolicitudes :
        /\ solicitudes[s].fase = "manejador"
        /\ solicitudes[s].ctx.variables # SinValor
        /\ solicitudes[s].obtenido.variables = solicitudes[s].ctx.variables
        /\ Contenido(mapas, solicitudes[s].obtenido.variables) # Vacio
        /\ solicitudes[t].fase = "manejador"
        /\ solicitudes[t].detalle # DetalleNil
        /\ solicitudes[t].ctx.variables = SinValor
        /\ solicitudes[t].obtenido.variables # SinValor
        /\ Contenido(mapas, solicitudes[t].obtenido.variables) = Vacio

\* the names of the six CORS fields
SeisCampos ==
    {AccessControlAllowOrigin, AccessControlAllowCredentials, AccessControlMaxAge,
     AccessControlAllowMethods, AccessControlAllowHeaders, AccessControlExposeHeaders}

\* C18: whatever the configuration, a request of a method other than OPTIONS
\* that reaches a handler carries in its context, when CORS is active, the
\* six fields with the values the OPTIONS request for the same path and
\* pattern is answered with, and carries no CORS map when CORS is not active
C18_CamposEnContexto ==
    /\ \A u \in URIsCORS, m \in Metodos :
           \A pr \in PatronesCoincidentes(patronesDeRutas, QuitarConsulta(u)) :
               LET r == Despachar(cors, patronesDeRutas, m, u, pr, <<>>)
                   o == Despachar(cors, patronesDeRutas, OPTIONS, u, pr, <<>>)
               IN  r.manejador # SinManejador =>
                       IF cors.esActivo
                       THEN /\ r.ctxCORS.hay
                            /\ o.estado = 204
                            /\ DOMAIN r.ctxCORS.mapa = SeisCampos
                            /\ r.ctxCORS.mapa = o.cabeceras
                       ELSE ~r.ctxCORS.hay
    /\ (ultimo.op = "ServeHTTP" /\ ultimo.manejador # SinManejador /\ ultimo.ctxCORS.hay) =>
           DOMAIN ultimo.ctxCORS.mapa = SeisCampos

\* a GET reached its handler with CORS active, headers declared on its
\* pattern, and the six fields in its context
C18_Testigo ==
    /\ ultimo.op = "ServeHTTP"
    /\ ultimo.metodo = GET
    /\ ultimo.manejador # SinManejador
    /\ cors.esActivo
    /\ ultimo.ctxCORS.hay
    /\ ultimo.ctxCORS.mapa[AccessControlAllowHeaders] # <<>>
    /\ ultimo.ctxCORS.mapa[AccessControlExposeHeaders] # <<>>
    /\ ultimo.ctxCORS.mapa = CabecerasDeOptions(cors, patronesDeRutas[ultimo.detalle])

\* C19: every template registered with success has its endpoint in the one
\* entry of its canonical pattern, so templates of one pattern share the
\* entry and its endpoints map holds them all; the bindings of an entry are
\* those compiled from the template that made it, and no later step changes
\* their number, order or names
C19_DetalleCompartido ==
    [][ /\ \A reg \in registradas' :
               LET c == rutaAPatronDeRuta(reg[2])
               IN  /\ c.pr \in DOMAIN patronesDeRutas'
                   /\ reg[1] \in DOMAIN patronesDeRutas'[c.pr].endpoints
        /\ \A pr \in DOMAIN patronesDeRutas :
               /\ pr \in DOMAIN patronesDeRutas'
               /\ patronesDeRutas'[pr].variables = patronesDeRutas[pr].variables
        /\ \A pr \in DOMAIN patronesDeRutas' \ DOMAIN patronesDeRutas :
               /\ ultimo'.op = "nuevoEndpoint" /\ ultimo'.pr = pr
               /\ patronesDeRutas'[pr].variables = rutaAPatronDeRuta(ultimo'.ruta).variables
      ]_vars

\* /a/{x} and A/ {X} / were registered, one for GET and one for POST, and the
\* entry of /a/{v} holds both endpoints and the binding x
C19_Testigo ==
    /\ ~finalizado
    /\ \E m \in Metodos : {<<m, RutaAX>>, <<CHOOSE n \in Metodos : n # m, RutaAXMayuscula>>}
                              \subseteq registradas
    /\ LET pr == rutaAPatronDeRuta(RutaAX).pr
       IN  /\ pr \in DOMAIN patronesDeRutas
           /\ DOMAIN patronesDeRutas[pr].endpoints = Metodos
           /\ Nombres(patronesDeRutas[pr].variables) = << <<"x">> >>

\* C21: a call of AsignarMensajeTecnico on a node leaves the message given
\* as its technical message and copies it into the observation of its trace
\* only when that observation was empty; a call of
\* AsignarObservacionAlRastro leaves the observation given and the technical
\* message as it was; no call changes another node, so the technical message
\* of a node is the one of the last AsignarMensajeTecnico on it.
C21_MensajeYObservacion ==
    [][ /\ \A p \in 1..Len(monton) :
              (p # ultimo'.err \/ ultimo'.op \notin {"AsignarMensajeTecnico",
                                                     "AsignarObservacionAlRastro"})
                  => monton'[p] = monton[p]
        /\ ultimo'.op = "AsignarMensajeTecnico" =>
              LET antes == monton[ultimo'.err]
                  despues == monton'[ultimo'.err]
              IN  /\ despues.mensajeTecnico = ultimo'.mensaje
                  /\ despues.rastro.Observaciones =
                         IF antes.rastro.Observaciones = <<>>
                         THEN ultimo'.mensaje
                         ELSE antes.rastro.Observaciones
                  /\ despues = [antes EXCEPT
                                   !.mensajeTecnico = despues.mensajeTecnico,
                                   !.rastro.Observaciones = despues.rastro.Observaciones]
        /\ ultimo'.op = "AsignarObservacionAlRastro" =>
              monton'[ultimo'.err] =
                  [monton[ultimo'.err] EXCEPT
                       !.rastro.Observaciones = ultimo'.observacion]
      ]_vars

\* a technical message has been assigned to a node whose observation was not
\* empty, and the observation is still the earlier one
C21_Testigo ==
    /\ ultimo.op = "AsignarMensajeTecnico"
    /\ ultimo.mensaje # <<>>
    /\ monton[ultimo.err].mensajeTecnico = ultimo.mensaje
    /\ monton[ultimo.err].rastro.Observaciones \notin {<<>>, ultimo.mensaje}

\* the package of a function, as its qualified name gives it
PaqueteDe(funcion) == SubSeq(funcion, 1, Index(funcion, "."))

\* the frames of the library itself
MarcosPropios ==
    {MarcoAsignarRastro, MarcoErrorNuevo, MarcoErrorNuevoTipado, MarcoErrorNuevoRastro}

\* C22: the trace a typed constructor or ErrorNuevoRastro has just captured
\* names, in each of its fields, the frame of the code that called it: the
\* function and the line of that frame, the file of that frame (without its
\* directory and its ".go"), and the package of that frame; no field names a
\* function, a file or the package of the library.
C22_OrigenDelRastro ==
    ultimo.op \in {"ErrorNuevo", "ErrorNuevoRastro"} =>
        LET r == monton[ultimo.err].rastro
            s == ultimo.sitio
        IN  /\ r.Funcion = s.funcion
            /\ r.NroLinea = s.linea
            /\ r.Archivo \o <<".", "g", "o">>
                   = SubSeq(s.archivo, Len(s.archivo) - Len(r.Archivo) - 2,
                            Len(s.archivo))
            /\ r.Paquete = PaqueteDe(s.funcion)
            /\ \A m \in MarcosPropios :
                   /\ r.Funcion # m.funcion
                   /\ r.Paquete \notin {m.archivo, PaqueteDe(m.funcion)}
                   /\ r.Archivo \o <<".", "g", "o">>
                          # SubSeq(m.archivo, Len(m.archivo) - Len(r.Archivo) - 2,
                                   Len(m.archivo))

\* C23: Ejecutar(nil) returns nil and calls no interceptor of the list,
\* whether the list is empty or not: the handler returned is nil, so no
\* interceptor has been applied to build it, and nothing has been run.
C23_TerminalNil ==
    (ultimo.op = "Ejecutar" /\ ultimo.manejadorFunc = ManejadorNil) =>
        /\ compuesto = ManejadorNil
        /\ \A i \in 1..Len(ultimo.lista) : ultimo.lista[i] \notin Rango(compuesto)
        /\ bitacora = <<>>

\* Ejecutar(nil) has been called on a list of at least two interceptors
C23_Testigo ==
    /\ ultimo.op = "Ejecutar"
    /\ ultimo.manejadorFunc = ManejadorNil
    /\ Len(ultimo.lista) >= 2
    /\ funciones = ultimo.lista
    /\ compuesto = ManejadorNil

\* the zero-based index, in the 36 characters, of the j-th hexadecimal digit
\* (j from 0 to 31) of the 8-4-4-4-12 layout
IndiceDelDigito(j) ==
    IF j < 8 THEN j ELSE IF j < 12 THEN j + 1 ELSE IF j < 16 THEN j + 2
    ELSE IF j < 20 THEN j + 3 ELSE j + 4

\* the four bits the j-th hexadecimal digit stands for in the bytes a
MedioByte(a, j) == IF j % 2 = 0 THEN a[(j \div 2) + 1] \div 16 ELSE a[(j \div 2) + 1] % 16

\* C24: for the 16 bytes of the source, the string AsignarUUID stores has 36
\* characters, '-' at the indexes 8, 13, 18 and 23 and lower-case hexadecimal
\* digits elsewhere; the digit at index 14 is '4', the digit at index 19 is
\* 8, 9, a or b and keeps the two low bits of the source's half byte; every
\* other digit is the half byte of the source at its place.
C24_FormaDelUUID ==
    ultimo.op = "AsignarUUID" =>
        LET u == monton[ultimo.err].uuid
            a == ultimo.a
        IN  /\ Len(u) = 36
            /\ \A i \in 0..35 :
                   IF i \in {8, 13, 18, 23} THEN u[i + 1] = "-"
                   ELSE u[i + 1] \in Rango(TablaHex)
            /\ u[14 + 1] = "4"
            /\ u[19 + 1] \in {"8", "9", "a", "b"}
            /\ u[19 + 1] = TablaHex[8 + (MedioByte(a, 16) % 4) + 1]
            /\ \A j \in (0..31) \ {12, 16} :
                   u[IndiceDelDigito(j) + 1] = TablaHex[MedioByte(a, j) + 1]

\* an identifier has been stored for a source whose byte 6 had another
\* version in its high bits and whose byte 8 had both high bits set
C24_Testigo ==
    /\ ultimo.op = "AsignarUUID"
    /\ ultimo.a[7] = 171
    /\ ultimo.a[9] = 255
    /\ ultimo.a[1] = 0 /\ ultimo.a[2] = 17
    /\ SubSeq(monton[ultimo.err].uuid, 1, 9) = <<"0", "0", "1", "1", "2", "2", "3", "3", "-">>
    /\ SubSeq(monton[ultimo.err].uuid, 15, 16) = <<"4", "b">>
    /\ SubSeq(monton[ultimo.err].uuid, 20, 21) = <<"b", "f">>

\* a normalised part of a template that is "{", a name with no brace and
\* at least one character, and "}"
EsVariableExacta(p) ==
    /\ Len(p) >= 3
    /\ p[1] = "{"
    /\ p[Len(p)] = "}"
    /\ \A j \in 2..(Len(p) - 1) : p[j] \notin {"{", "}"}

\* C25: when a template compiles, each of its parts, trimmed and lowered,
\* either has no "{" or is exactly "{", a non-empty name without braces,
\* "}"; and no name recorded for a variable holds "{" or "}".
C25_VariableExacta ==
    (ultimo.op = "nuevoEndpoint" /\ ultimo.err = ErrNil) =>
        /\ \A i \in 1..Len(PartesRuta(ultimo.ruta)) :
               LET p == ToLower(Trim(PartesRuta(ultimo.ruta)[i]))
               IN  "{" \notin Rango(p) \/ EsVariableExacta(p)
        /\ \A i \in 1..Len(ultimo.variables) :
               /\ "{" \notin Rango(ultimo.variables[i].nombre)
               /\ "}" \notin Rango(ultimo.variables[i].nombre)

\* C26: in every detail of the route table the names of the variables are
\* non-empty and pairwise distinct, and the variable map of a request that
\* was found has one entry for each variable of the detail.
C26_NombresDistintos ==
    /\ \A pr \in DOMAIN patronesDeRutas :
           LET variables == patronesDeRutas[pr].variables
           IN  /\ \A i \in 1..Len(variables) : variables[i].nombre # <<>>
               /\ \A i, j \in 1..Len(variables) :
                      i # j => variables[i].nombre # variables[j].nombre
    /\ (ultimo.op = "ServeHTTP" /\ ultimo.encontrado) =>
           Cardinality(DOMAIN ultimo.variables)
               = Len(patronesDeRutas[ultimo.detalle].variables)

\* a template whose parts are literal and already trimmed and lower-case
EsLiteralMinuscula(t) ==
    /\ t # <<>>
    /\ \A i \in 1..Len(PartesRuta(t)) :
           LET p == PartesRuta(t)[i]
           IN  p = ToLower(Trim(p)) /\ "{" \notin Rango(p)

\* C27: for a literal lower-case template registered as the only route, the
\* matcher splits the stored pattern into the parts the compiler made, and
\* a request for the very path of the template has as many parts as the
\* pattern and is found; the template "/" and templates with and without a
\* trailing slash are among them.
C27_MismaNormalizacion ==
    \A reg \in registradas :
        (registradas = {reg} /\ EsLiteralMinuscula(reg[2])) =>
            LET c == rutaAPatronDeRuta(reg[2])
            IN  /\ c.err = ErrNil
                /\ PartesPatronDeRuta(c.pr) = PartesRuta(reg[2])
                /\ (ultimo.op = "ServeHTTP" /\ ultimo.uri = reg[2]) =>
                       /\ Len(PartesRutaRecibida(ultimo.uri))
                              = Len(PartesPatronDeRuta(c.pr))
                       /\ ultimo.encontrado
                       /\ ultimo.detalle = c.pr

\* the zero-based indexes of the "{v}" parts of a canonical pattern
PosicionesDeComodin(pr) ==
    {i - 1 : i \in {j \in 1..Len(PartesPatronDeRuta(pr)) : PartesPatronDeRuta(pr)[j] = ComodinV}}

\* the bindings are one for each "{v}" part of the pattern, each at the index
\* of its part, in strictly increasing order of position
ReflejaComodines(pr, variables) ==
    /\ Len(variables) = Cardinality(PosicionesDeComodin(pr))
    /\ {variables[k].posicion : k \in 1..Len(variables)} = PosicionesDeComodin(pr)
    /\ \A k, l \in 1..Len(variables) :
           k < l => variables[k].posicion < variables[l].posicion

\* C28: the bindings of a compiled template, and those of every detail of the
\* route table, are one for each "{v}" part of the canonical pattern, at the
\* zero-based index of the part, in strictly increasing position; a
\* registration for a pattern already in the table brings a binding list as
\* long as the recorded one, and the comparison of the names reads no index
\* past the end of a list.
C28_VariablesReflejanComodines ==
    /\ \A pr \in DOMAIN patronesDeRutas :
           ReflejaComodines(pr, patronesDeRutas[pr].variables)
    /\ (ultimo.op = "nuevoEndpoint" /\ ultimo.err = ErrNil) =>
           /\ ReflejaComodines(ultimo.pr, ultimo.variables)
           /\ ultimo.salida # "panico"
           /\ ultimo.pr \in DOMAIN patronesDeRutas
           /\ Len(patronesDeRutas[ultimo.pr].variables) = Len(ultimo.variables)
           /\ ~IndiceFueraDeRango(patronesDeRutas[ultimo.pr].variables, ultimo.variables)

\* a template with two variables has been registered for a pattern
\* that the table already held under other names
C28_Testigo ==
    /\ ultimo.op = "nuevoEndpoint" /\ ultimo.err = ErrNil
    /\ ultimo.salida = "finalizar"
    /\ Len(ultimo.variables) = 2
    /\ ultimo.variables[1].posicion = 0 /\ ultimo.variables[2].posicion = 1
    /\ Len(patronesDeRutas[ultimo.pr].variables) = 2
    /\ Nombres(patronesDeRutas[ultimo.pr].variables) # Nombres(ultimo.variables)

\* C29: for every request path, the empty one and "/" included, and every
\* route table, the search for a pattern ends with found or not found: it
\* never indexes the list of parts of the request out of range.
C29_BusquedaTotal ==
    ultimo.op = "ServeHTTP" =>
        /\ ~ultimo.panico
        /\ ~PanicoAlBuscar(QuitarConsulta(ultimo.uri))
        /\ ultimo.encontrado =>
               \A i \in 1..Len(patronesDeRutas[ultimo.detalle].variables) :
                   patronesDeRutas[ultimo.detalle].variables[i].posicion
                       < Len(PartesRutaRecibida(QuitarConsulta(ultimo.uri)))

\* the positions, in a chain, of the apirest nodes whose kind is set
PosicionesTipadas(c) ==
    {i \in 1..Len(c) : c[i].clase = ClaseAPIREST /\ c[i].estadoHTTP # 0}

\* C30: in every chain built with the constructors, ErrorNuevoRastro and the
\* setters, a node whose kind is set has no previous node; a chain holds at
\* most one such node, it is the last of the chain, and every node in front
\* of it is an apirest node without a kind; the previous node of a node is
\* always an older one, so no chain has a cycle and the walks of the kind
\* finder, ErrorEsAPIREST and ErrorObtenerRastros end within the chain.
C30_UnSoloTipo ==
    /\ \A p \in 1..Len(monton) :
           /\ monton[p].estadoHTTP # 0 => monton[p].errAnterior = PunteroNil
           /\ monton[p].errAnterior < p
    /\ \A err \in Punteros :
           LET c == Cadena(monton, err)
           IN  /\ Cardinality(PosicionesTipadas(c)) <= 1
               /\ \A i \in PosicionesTipadas(c) :
                      /\ i = Len(c)
                      /\ \A j \in 1..(i - 1) :
                             c[j].clase = ClaseAPIREST /\ c[j].estadoHTTP = 0
               /\ \A i, j \in 1..Len(c) :
                      (i < j /\ c[i].clase = ClaseAPIREST /\ c[j].clase = ClaseAPIREST)
                          => c[i].puntero > c[j].puntero
               /\ Len(ErrorObtenerRastros(c)) <= Len(c)
               /\ ErrorEsAPIREST(c).ok = (PosicionesTipadas(c) # {})
               /\ \A e \in EstadosHTTP :
                      errorBuscarTipo(c, e).ok
                          = (\E i \in PosicionesTipadas(c) : c[i].estadoHTTP = e)

\* a typed error under a trace wrapper, both annotated after the wrapping
C30_Testigo ==
    /\ Len(monton) = 2
    /\ monton[1].estadoHTTP # 0
    /\ monton[2].estadoHTTP = 0 /\ monton[2].errAnterior = 1
    /\ monton[1].mensajeTecnico # <<>>
    /\ monton[2].rastro.Observaciones # <<>>
    /\ ultimo.op = "AsignarObservacionAlRastro"

====
